---- MODULE Spec2Model ----
(***************************************************************************)
(* The comment subsystem of the prediction feed: the relational store      *)
(* (tables comments and comment_likes, the posts.comments counter, their   *)
(* triggers, cascades and row-level policies), the useComments hook        *)
(* (fetchComments, createComment, likeComment, the mount effect and the    *)
(* realtime effect with its channel), as a state machine.                  *)
(*                                                                         *)
(* Every store request of the hook is asynchronous: the call that issues   *)
(* it and the continuation that handles its answer are separate steps, so  *)
(* that other calls, other clients and notifications interleave between    *)
(* them exactly where the code awaits.                                     *)
(***************************************************************************)
EXTENDS Integers, Sequences, FiniteSets, TLC

\* ------------------------------------------------------------------ bounds

\* Comment rows ever inserted: ids are 1..MaxComments, never reused.
MaxComments == 3
\* Channels a view creates over its life (one per run of the realtime effect).
MaxChannels == 2
\* Change notifications queued on one channel and not yet handled.
MaxPending == 2

\* SQL NULL, JavaScript null/undefined, and the falsy empty postId.
NULL == 0
\* CHECK (length(content) <= 1000)
MaxContentLen == 1000

\* The users of the application (auth.users rows).
Users == {1, 2}
\* The posts (public.posts rows).
Posts == {1, 2}
CommentIds == 1 .. MaxComments
ChanIds == 1 .. MaxChannels
\* The two mounted instances of useComments the scenarios need.
Views == {"A", "B"}
\* fetchComments executions in flight in one view.
FetchSlots == {1, 2}
\* loadActionStates executions in flight in the card.
LoadSlots == {1, 2}
\* handleLike calls in flight in the card.
PostLikeSlots == {1, 2}
\* How far from zero the likesCount of a card that is liked again may be.
MaxLikesCount == 2
\* likeComment calls in flight in one view.
LikeSlots == {1, 2}

\* Comment texts a user types: a sequence of characters, " " for white space.
Contents == {<< >>, <<" ">>, <<"a">>, <<" ", "a", " ">>}

VARIABLES
    \* ---- the store
    comments,       \* public.comments: a set of rows
    comment_likes,  \* public.comment_likes: rows per (comment_id, user_id)
    posts,          \* public.posts.comments, the counter, per post
    nextId,         \* the next comment id (gen_random_uuid: always fresh)
    auth_users,     \* auth.users: the ids of its rows
    public_posts,   \* public.posts: the ids of its rows
    txns,           \* per session: its open transaction on public.comments
    locks,          \* per posts row: the transaction holding its row lock
    \* ---- the realtime service
    channels,       \* per channel id: its state, owner, filter and queue
    \* ---- each view (one mounted useComments)
    mounted,        \* whether the view is mounted
    postId,         \* the hook's postId argument
    user,           \* useAuth().user (NULL: no session)
    viewComments,   \* the hook state `comments`: the displayed tree
    fetched,        \* transformedComments of the execution that set it
    loading,        \* the hook state `loading`
    channelRef,     \* channelRef.current: a channel id or NULL
    toast,          \* the last toast shown by the view
    errorLog,       \* the last console.error of the view
    history,        \* what was observed of the view's calls (see NoHistory)
    fetching,       \* the fetchComments executions in flight
    liking,         \* the likeComment calls in flight
    creating,       \* the createComment call in flight
    \* ---- the tables behind usePostActions, per (user, post)
    user_follows,   \* the user follows the author of the post
    saved_posts,    \* the user has saved the post
    blocked_users,  \* the user has blocked the author of the post
    \* ---- the post card (one mounted PredictionCard)
    cardMounted,    \* whether the card is mounted
    cardUser,       \* useAuth().user of the card (NULL: no session)
    prediction,     \* prediction.id, the post the card shows
    isFollowed,     \* the card state `isFollowed`
    isSaved,        \* the card state `isSaved`
    isBlocked,      \* the card state `isBlocked`
    actionStatesLoaded, \* the card state `actionStatesLoaded`
    loadingStates,  \* the loadActionStates executions in flight
    menuAction,     \* the handleMenuAction call in flight
    cardToast,      \* the last toast shown by the card
    cardLog,        \* the last console.error of the card
    post_likes,     \* behind likePost: the user likes the post
    isLiked,        \* the card state `isLiked`
    likesCount,     \* the card state `likesCount`
    cardInitial,    \* prediction.is_liked and prediction.likes at the mount
    likingPost,     \* the handleLike calls in flight
    sharing,        \* the handleShare call in flight
    dataCall,       \* the data-layer operation the card has called last
    authPrompt      \* the handler whose requireAuth() prompted last

txnVars == <<txns, locks>>
refVars == <<auth_users, public_posts>>
storeVars == <<comments, comment_likes, posts, nextId, txns, locks, refVars>>
viewVars == <<mounted, postId, user, viewComments, fetched, loading, channelRef,
              toast, errorLog, history>>
callVars == <<fetching, liking, creating>>
actionVars == <<user_follows, saved_posts, blocked_users>>
likeVars == <<post_likes, isLiked, likesCount, cardInitial, likingPost>>
cardVars == <<actionVars, cardMounted, cardUser, prediction, isFollowed, isSaved,
              isBlocked, actionStatesLoaded, loadingStates, menuAction,
              cardToast, cardLog, likeVars, sharing, dataCall, authPrompt>>
vars == <<comments, comment_likes, posts, nextId, auth_users, public_posts,
          txns, locks, channels, mounted, postId, user,
          viewComments, fetched, loading, channelRef, toast, errorLog, history,
          fetching, liking, creating,
          user_follows, saved_posts, blocked_users, cardMounted, cardUser,
          prediction, isFollowed, isSaved, isBlocked, actionStatesLoaded,
          loadingStates, menuAction, cardToast, cardLog,
          post_likes, isLiked, likesCount, cardInitial, likingPost, sharing,
          dataCall, authPrompt>>

\* ------------------------------------------------------------ the store

\* A row of public.comments as createComment inserts it: likes_count takes
\* its default 0, created_at its default now().
CommentRow(id, uid, pid, content, parent, at) ==
    [id |-> id, user_id |-> uid, post_id |-> pid, content |-> content,
     parent_id |-> parent, likes_count |-> 0, created_at |-> at]

CommentExists(id) == \E r \in comments : r.id = id

\* The number of comment_likes rows that reference comment c.
RECURSIVE SumLikes(_, _, _)
SumLikes(likes, c, us) ==
    IF us = {} THEN 0
    ELSE LET u == CHOOSE x \in us : TRUE
         IN likes[<<c, u>>] + SumLikes(likes, c, us \ {u})

LikeRows(c) == SumLikes(comment_likes, c, Users)

\* SELECT COUNT(*) FROM public.comments WHERE post_id = p, over the rows cs.
CountComments(cs, p) == Cardinality({r \in cs : r.post_id = p})

Min(a, b) == IF a < b THEN a ELSE b

\* A parent_id without ON DELETE CASCADE that lets the parent go.
CascadeNothing(cs, ids) == ids

\* The comment with id c and every comment below it: the rows that
\* parent_id ... ON DELETE CASCADE removes with it.
RECURSIVE Cascade(_, _)
Cascade(cs, ids) ==
    LET more == {r.id : r \in {q \in cs : q.parent_id \in ids}} \ ids
    IN IF more = {} THEN ids ELSE Cascade(cs, ids \cup more)

\* A publication the tables were not added to: no change is broadcast.
BroadcastNothing(chs, likeEvents, commentEvents) == chs

\* A likes binding that had the filter of the comments binding: a channel
\* receives only the changes of rows of its post.
BroadcastFiltered(chs, likeEvents, commentEvents) ==
    [c \in ChanIds |->
        IF chs[c].st = "joined"
        THEN [chs[c] EXCEPT !.pending =
                 Min(MaxPending, @ + commentEvents[chs[c].post])]
        ELSE chs[c]]

\* ALTER PUBLICATION supabase_realtime ADD TABLE: every row change is
\* broadcast.  A joined channel receives each comment_likes change (its
\* second binding has no filter) and each comments change whose row has the
\* post_id of its filter; each received change queues one call of the
\* binding's callback.  likeEvents is the number of comment_likes rows
\* changed, commentEvents[p] the number of comments rows of post p changed.
Broadcast(chs, likeEvents, commentEvents) ==
    [c \in ChanIds |->
        IF chs[c].st = "joined"
        THEN [chs[c] EXCEPT !.pending =
                 Min(MaxPending, @ + likeEvents + commentEvents[chs[c].post])]
        ELSE chs[c]]

NoEvents == [p \in Posts |-> 0]

\* INSERT INTO public.comments by the session auth, with the policy
\* "Authenticated users can create comments", the CHECK on content and the
\* foreign keys of post_id and parent_id.
InsertCommentAllowed(auth, row) ==
    /\ auth # NULL
    /\ auth = row.user_id
    /\ row.user_id \in auth_users
    /\ row.post_id \in public_posts
    /\ Len(row.content) <= MaxContentLen
    /\ row.parent_id # NULL => CommentExists(row.parent_id)

\* update_post_comments_count(), for the post p of the inserted or deleted
\* row: the counter becomes the count of the rows cs now in the table.
UpdatePostCommentsCount(ps, cs, touched) ==
    [p \in Posts |-> IF p \in touched THEN CountComments(cs, p) ELSE ps[p]]

\* Whether the UPDATE of a trigger can take the row locks of the posts ps:
\* no open transaction holds one of them.
PostsUnlocked(ps) == \A p \in ps \cap Posts : locks[p] = NULL

\* The insert, its AFTER INSERT trigger and its broadcast.
InsertComment(row) ==
    /\ PostsUnlocked({row.post_id})
    /\ comments' = comments \cup {row}
    /\ posts' = UpdatePostCommentsCount(posts, comments \cup {row}, {row.post_id})
    /\ nextId' = nextId + 1
    /\ channels' = Broadcast(channels, 0,
                       [p \in Posts |-> IF p = row.post_id THEN 1 ELSE 0])
    /\ UNCHANGED <<comment_likes, txnVars, refVars>>

\* DELETE FROM public.comments WHERE id = c by the session auth: the policy
\* "Users can delete their own comments" hides the rows of other users; the
\* cascades remove the replies below the row and the likes of all of them;
\* the AFTER DELETE triggers fire for each removed row.
DeleteComment(auth, c) ==
    LET target == {r.id : r \in {q \in comments : q.id = c /\ q.user_id = auth}}
        gone == IF target = {} THEN {} ELSE Cascade(comments, target)
        goneRows == {r \in comments : r.id \in gone}
        left == comments \ goneRows
        goneLikes == {k \in DOMAIN comment_likes : k[1] \in gone}
        nLikes == Cardinality({k \in goneLikes : comment_likes[k] > 0})
    IN /\ PostsUnlocked({r.post_id : r \in goneRows})
       /\ comments' = left
       /\ comment_likes' = [k \in DOMAIN comment_likes |->
                               IF k \in goneLikes THEN 0 ELSE comment_likes[k]]
       /\ posts' = UpdatePostCommentsCount(posts, left, {r.post_id : r \in goneRows})
       /\ channels' = Broadcast(channels, nLikes,
                          [p \in Posts |-> Cardinality({r \in goneRows : r.post_id = p})])
       /\ UNCHANGED <<nextId, txnVars, refVars>>

\* A likes trigger that lacks its DELETE branch.
UpdateCommentLikesCountOnInsert(cs, c, d) ==
    {IF r.id = c /\ d > 0 THEN [r EXCEPT !.likes_count = r.likes_count + d]
     ELSE r : r \in cs}

\* update_comment_likes_count(): likes_count + d on the comment c, for the
\* d rows inserted (d > 0) or deleted (d < 0).
UpdateCommentLikesCount(cs, c, d) ==
    {IF r.id = c THEN [r EXCEPT !.likes_count = @ + d] ELSE r : r \in cs}

\* A comment_likes table without UNIQUE(comment_id, user_id).
InsertLikeAllowedNoUnique(auth, c, uid) ==
    /\ auth # NULL
    /\ auth = uid
    /\ uid \in auth_users
    /\ CommentExists(c)

\* INSERT INTO public.comment_likes by the session auth: the policy
\* "Authenticated users can like comments", the foreign keys and
\* UNIQUE(comment_id, user_id).
InsertLikeAllowed(auth, c, uid) ==
    /\ auth # NULL
    /\ auth = uid
    /\ uid \in auth_users
    /\ CommentExists(c)
    /\ comment_likes[<<c, uid>>] = 0

PostOf(c) == (CHOOSE r \in comments : r.id = c).post_id

\* The insert, its AFTER INSERT trigger and their broadcasts: the new
\* comment_likes row, and the comments row the trigger updated.
InsertLike(c, uid) ==
    /\ comment_likes' = [comment_likes EXCEPT ![<<c, uid>>] = @ + 1]
    /\ comments' = UpdateCommentLikesCount(comments, c, 1)
    /\ channels' = Broadcast(channels, 1,
                       [p \in Posts |-> IF p = PostOf(c) THEN 1 ELSE 0])
    /\ UNCHANGED <<posts, nextId, txnVars, refVars>>

\* A policy "Users can unlike their own likes" with USING (true).
DeleteLikeOfAnyone(auth, c, uid) ==
    LET n == comment_likes[<<c, uid>>]
    IN /\ comment_likes' = [comment_likes EXCEPT ![<<c, uid>>] = @ - n]
       /\ comments' = UpdateCommentLikesCount(comments, c, 0 - n)
       /\ channels' = Broadcast(channels, n,
                          [p \in Posts |-> IF CommentExists(c) /\ p = PostOf(c)
                                           THEN n ELSE 0])
       /\ UNCHANGED <<posts, nextId, txnVars, refVars>>

\* DELETE FROM public.comment_likes WHERE comment_id = c AND user_id = uid
\* by the session auth: the policy "Users can unlike their own likes" hides
\* the rows of other users; deleting no row is no error.
DeleteLike(auth, c, uid) ==
    LET n == IF auth = uid THEN comment_likes[<<c, uid>>] ELSE 0
    IN /\ comment_likes' = [comment_likes EXCEPT ![<<c, uid>>] = @ - n]
       /\ comments' = UpdateCommentLikesCount(comments, c, 0 - n)
       /\ channels' = Broadcast(channels, n,
                          [p \in Posts |-> IF CommentExists(c) /\ p = PostOf(c)
                                           THEN n ELSE 0])
       /\ UNCHANGED <<posts, nextId, txnVars, refVars>>

\* No transaction is open: a DELETE of a posts or users row waits for the
\* transactions whose new rows hold a key-share lock on it.
NoOpenTxn == \A u \in Users : txns[u].pc = "idle"

\* DELETE FROM public.posts WHERE id = p: post_id ... ON DELETE CASCADE
\* removes the comments of the post, parent_id ... ON DELETE CASCADE the
\* replies below them (on whatever post they are) and comment_id ... ON
\* DELETE CASCADE the likes of all of them; the AFTER DELETE triggers fire
\* for each removed row, and find no posts row to update for p.
DeletePost(p) ==
    LET target == {r.id : r \in {q \in comments : q.post_id = p}}
        gone == Cascade(comments, target)
        goneRows == {r \in comments : r.id \in gone}
        left == comments \ goneRows
        goneLikes == {k \in DOMAIN comment_likes : k[1] \in gone}
        nLikes == Cardinality({k \in goneLikes : comment_likes[k] > 0})
    IN /\ p \in public_posts
       /\ NoOpenTxn
       /\ public_posts' = public_posts \ {p}
       /\ comments' = left
       /\ comment_likes' = [k \in DOMAIN comment_likes |->
                               IF k \in goneLikes THEN 0 ELSE comment_likes[k]]
       /\ posts' = [UpdatePostCommentsCount(posts, left,
                         {r.post_id : r \in goneRows}) EXCEPT ![p] = 0]
       /\ channels' = Broadcast(channels, nLikes,
                          [q \in Posts |-> Cardinality({r \in goneRows : r.post_id = q})])
       /\ UNCHANGED <<nextId, txnVars, auth_users>>

\* DELETE FROM auth.users WHERE id = u: user_id ... ON DELETE CASCADE
\* removes the comments and the likes of the user, and the cascades of the
\* comments remove the replies below them and the likes of all of them.
\* The likes trigger decrements the comments that lose a like of u and
\* remain; the counter trigger recounts the posts that lose a comment.
DeleteUser(u) ==
    LET target == {r.id : r \in {q \in comments : q.user_id = u}}
        gone == Cascade(comments, target)
        goneRows == {r \in comments : r.id \in gone}
        left == comments \ goneRows
        goneLikes == {k \in DOMAIN comment_likes : k[1] \in gone \/ k[2] = u}
        nLikes == Cardinality({k \in goneLikes : comment_likes[k] > 0})
        unliked == {r \in left : comment_likes[<<r.id, u>>] > 0}
    IN /\ u \in auth_users
       /\ NoOpenTxn
       /\ auth_users' = auth_users \ {u}
       /\ comments' = {[r EXCEPT !.likes_count = @ - comment_likes[<<r.id, u>>]] :
                          r \in left}
       /\ comment_likes' = [k \in DOMAIN comment_likes |->
                               IF k \in goneLikes THEN 0 ELSE comment_likes[k]]
       /\ posts' = UpdatePostCommentsCount(posts, left, {r.post_id : r \in goneRows})
       /\ channels' = Broadcast(channels, nLikes,
                          [q \in Posts |->
                              Cardinality({r \in goneRows \cup unliked : r.post_id = q})])
       /\ UNCHANGED <<nextId, txnVars, public_posts>>

\* The policies "Anyone can view comments" and "Anyone can view comment
\* likes", USING (true): the rows a SELECT of the session auth reads.
ViewableComments(auth) == {r \in comments : TRUE}
ViewableLikes(auth) == {k \in DOMAIN comment_likes : comment_likes[k] > 0}

\* UPDATE public.comments SET content = content, user_id = uid WHERE id = c
\* by the session auth.  The policy "Users can update their own comments"
\* hides the rows of other users, and, having no WITH CHECK of its own, its
\* USING expression is also checked on the new row; the CHECK on content
\* and the foreign key of user_id hold for the new row.
UpdateCommentAllowed(auth, c, content, uid) ==
    /\ auth # NULL
    /\ \E r \in comments : r.id = c /\ r.user_id = auth
    /\ auth = uid
    /\ uid \in auth_users
    /\ Len(content) <= MaxContentLen

\* The update and its broadcast (set_comment_updated_at stamps updated_at,
\* a column no query of the hook reads).  No counter trigger fires.
UpdateComment(c, content, uid) ==
    /\ comments' = {IF r.id = c THEN [r EXCEPT !.content = content, !.user_id = uid]
                    ELSE r : r \in comments}
    /\ channels' = Broadcast(channels, 0,
                       [p \in Posts |-> IF p = PostOf(c) THEN 1 ELSE 0])
    /\ UNCHANGED <<comment_likes, posts, nextId, txnVars, refVars>>

\* ----------------------------------------- the store: open transactions
\* The statements above run one at a time, each with its triggers.  Below,
\* the insert and the delete of comments are taken apart into the steps of
\* their transactions, as two sessions run them at once.  Each request of a
\* client is one transaction at READ COMMITTED: a statement sees the rows
\* committed before it started and the changes of its own transaction; the
\* UPDATE of posts in update_post_comments_count() evaluates its
\* SELECT COUNT(*) on that snapshot, then takes the row lock of the post,
\* waiting for a transaction that holds it, and writes the count it had
\* evaluated.

IdleTxn == [pc |-> "idle", ins |-> {}, del |-> {}, todo |-> {}, post |-> NULL,
            count |-> 0, writes |-> {}]

\* The rows transaction u sees: those committed, with its own changes.
VisibleTo(u) == (comments \cup txns[u].ins) \ txns[u].del

\* The ids of the rows an open transaction other than u has deleted.
DeletedByOthers(u) ==
    UNION {{r.id : r \in txns[w].del} : w \in Users \ {u}}

\* Session u begins INSERT INTO public.comments: the row is written, not yet
\* committed.  The foreign key of parent_id locks the parent's row, so a
\* parent another transaction is deleting makes the insert wait.
TxnInsertsComment(u, q, parentId) ==
    LET row == CommentRow(nextId, u, q, <<"a">>, parentId, nextId)
    IN /\ txns[u].pc = "idle"
       /\ nextId <= MaxComments
       /\ InsertCommentAllowed(u, row)
       /\ parentId \notin DeletedByOthers(u)
       /\ txns' = [txns EXCEPT ![u] =
                      [IdleTxn EXCEPT !.pc = "trigger", !.ins = {row},
                                      !.todo = {q}]]
       /\ nextId' = nextId + 1
       /\ UNCHANGED <<channels, viewVars, callVars, cardVars, refVars, comments, comment_likes, posts, locks>>

\* Session u begins DELETE FROM public.comments WHERE id = c: the row and,
\* by the cascade, the replies below it are deleted, not yet committed.  A
\* row another transaction is deleting, or replied to, makes the delete wait.
TxnDeletesComment(u, c) ==
    LET gone == Cascade(comments, {c})
        goneRows == {r \in comments : r.id \in gone}
    IN /\ txns[u].pc = "idle"
       /\ \E r \in comments : r.id = c /\ r.user_id = u
       /\ gone \cap DeletedByOthers(u) = {}
       /\ \A w \in Users \ {u} : \A r \in txns[w].ins : r.parent_id \notin gone
       /\ txns' = [txns EXCEPT ![u] =
                      [IdleTxn EXCEPT !.pc = "trigger", !.del = goneRows,
                                      !.todo = {r.post_id : r \in goneRows}]]
       /\ UNCHANGED <<channels, viewVars, callVars, cardVars, refVars, comments, comment_likes, posts, nextId, locks>>

\* The count the UPDATE of update_post_comments_count() evaluates for post q
\* in transaction u, on the snapshot of the statement.
SnapshotCount(u, q) == CountComments(VisibleTo(u), q)

\* The trigger of a row of post q fires in transaction u: the UPDATE starts
\* and evaluates the count.
TxnTriggerCounts(u, q) ==
    /\ txns[u].pc = "trigger"
    /\ q \in txns[u].todo
    /\ txns' = [txns EXCEPT ![u].pc = "update", ![u].post = q,
                            ![u].count = SnapshotCount(u, q)]
    /\ UNCHANGED <<channels, viewVars, callVars, cardVars, refVars, comments, comment_likes, posts, nextId, locks>>

\* The UPDATE takes the row lock of the post, once no other transaction
\* holds it, and writes the count.
TxnTriggerUpdates(u) ==
    LET t == txns[u]
    IN /\ t.pc = "update"
       /\ locks[t.post] \in {NULL, u}
       /\ locks' = [locks EXCEPT ![t.post] = u]
       /\ txns' = [txns EXCEPT ![u] =
                      [t EXCEPT !.pc = IF t.todo = {t.post} THEN "commit"
                                       ELSE "trigger",
                                !.todo = @ \ {t.post},
                                !.writes = {w \in @ : w[1] # t.post}
                                              \cup {<<t.post, t.count>>},
                                !.post = NULL, !.count = 0]]
       /\ UNCHANGED <<channels, viewVars, callVars, cardVars, refVars, comments, comment_likes, posts, nextId>>

\* Transaction u commits: its rows, its deletes (with the likes the cascade
\* removed) and its counter values become the committed state, its locks
\* are released, and its row changes are broadcast.
TxnCommits(u) ==
    LET t == txns[u]
        goneIds == {r.id : r \in t.del}
        goneLikes == {k \in DOMAIN comment_likes :
                         k[1] \in goneIds /\ comment_likes[k] > 0}
    IN /\ t.pc = "commit"
       /\ comments' = (comments \cup t.ins) \ t.del
       /\ comment_likes' = [k \in DOMAIN comment_likes |->
                               IF k[1] \in goneIds THEN 0 ELSE comment_likes[k]]
       /\ posts' = [q \in Posts |->
                       IF \E w \in t.writes : w[1] = q
                       THEN (CHOOSE w \in t.writes : w[1] = q)[2]
                       ELSE posts[q]]
       /\ locks' = [q \in Posts |-> IF locks[q] = u THEN NULL ELSE locks[q]]
       /\ txns' = [txns EXCEPT ![u] = IdleTxn]
       /\ channels' = Broadcast(channels, Cardinality(goneLikes),
                          [q \in Posts |->
                              Cardinality({r \in t.ins \cup t.del : r.post_id = q})])
       /\ UNCHANGED <<viewVars, callVars, cardVars, refVars, nextId>>

\* Transaction u is rolled back (the client went away, a deadlock was
\* broken): nothing of it remains.
TxnAborts(u) ==
    /\ txns[u].pc # "idle"
    /\ locks' = [q \in Posts |-> IF locks[q] = u THEN NULL ELSE locks[q]]
    /\ txns' = [txns EXCEPT ![u] = IdleTxn]
    /\ UNCHANGED <<channels, viewVars, callVars, cardVars, refVars, comments, comment_likes, posts, nextId>>

\* ------------------------------------------------- fetchComments: the tree

\* The order with ascending: false.
RECURSIVE OrderDescending(_)
OrderDescending(rs) ==
    IF rs = {} THEN << >>
    ELSE LET first == CHOOSE r \in rs : \A q \in rs : r.created_at >= q.created_at
         IN <<first>> \o OrderDescending(rs \ {first})

\* .order('created_at', { ascending: true }) over the rows rs.
RECURSIVE OrderByCreatedAt(_)
OrderByCreatedAt(rs) ==
    IF rs = {} THEN << >>
    ELSE LET first == CHOOSE r \in rs : \A q \in rs : r.created_at <= q.created_at
         IN <<first>> \o OrderByCreatedAt(rs \ {first})

\* .from('comments').select(...).eq('post_id', p).order('created_at'): the
\* policy "Anyone can view comments" shows every row.
SelectComments(p) == OrderByCreatedAt({r \in comments : r.post_id = p})

\* A likes query that returns no row.
SelectNoLikes(u) == {}

\* .from('comment_likes').select('comment_id').eq('user_id', u), mapped to
\* the comment ids: userLikes.
SelectUserLikes(u) == {c \in CommentIds : comment_likes[<<c, u>>] > 0}

\* A transformation with local arithmetic: the count read, plus one for a
\* comment the user likes.
TransformCommentsCounting(commentsData, userLikes) ==
    [i \in 1 .. Len(commentsData) |->
        [id |-> commentsData[i].id,
         user_id |-> commentsData[i].user_id,
         post_id |-> commentsData[i].post_id,
         content |-> commentsData[i].content,
         parent_id |-> commentsData[i].parent_id,
         likes_count |-> commentsData[i].likes_count
                            + IF commentsData[i].id \in userLikes THEN 1 ELSE 0,
         created_at |-> commentsData[i].created_at,
         is_liked |-> commentsData[i].id \in userLikes]]

\* transformedComments: each row with is_liked: userLikes.includes(id).
TransformComments(commentsData, userLikes) ==
    [i \in 1 .. Len(commentsData) |->
        [id |-> commentsData[i].id,
         user_id |-> commentsData[i].user_id,
         post_id |-> commentsData[i].post_id,
         content |-> commentsData[i].content,
         parent_id |-> commentsData[i].parent_id,
         likes_count |-> commentsData[i].likes_count,
         created_at |-> commentsData[i].created_at,
         is_liked |-> commentsData[i].id \in userLikes]]

\* transformedComments.filter(comment => !comment.parent_id)
RootComments(transformed) ==
    LET IsRoot(c) == c.parent_id = NULL
    IN SelectSeq(transformed, IsRoot)

\* The filter without the comparison with the root's id.
RepliesOfAnyParent(transformed, id) ==
    LET IsReply(c) == c.parent_id # NULL
    IN SelectSeq(transformed, IsReply)

\* transformedComments.filter(reply => reply.parent_id === comment.id)
RepliesOf(transformed, id) ==
    LET IsReplyTo(c) == c.parent_id = id
    IN SelectSeq(transformed, IsReplyTo)

\* commentsWithReplies: each root with its replies.
CommentsWithReplies(transformed) ==
    LET rootComments == RootComments(transformed)
    IN [i \in 1 .. Len(rootComments) |->
           [id |-> rootComments[i].id,
            user_id |-> rootComments[i].user_id,
            post_id |-> rootComments[i].post_id,
            content |-> rootComments[i].content,
            parent_id |-> rootComments[i].parent_id,
            likes_count |-> rootComments[i].likes_count,
            created_at |-> rootComments[i].created_at,
            is_liked |-> rootComments[i].is_liked,
            replies |-> RepliesOf(transformed, rootComments[i].id)]]

\* setComments(commentsWithReplies): the new value of the hook state.
SetComments(old, new) == new

\* --------------------------------------------- fetchComments: its execution
\* In every step that handles the answer of a store request, ok is whether
\* the request reached the store and was answered, or failed on the way.

\* console.error(msg, error): what the view logged last.
NoError == [msg |-> "none", error |-> "none"]

Logged(v, msg, error) == [errorLog EXCEPT ![v] = [msg |-> msg, error |-> error]]

\* What is remembered of the calls of a view, for stating properties of
\* sequences of calls:
\*   set     an execution of fetchComments has set the tree;
\*   raced   the execution that set the tree last was in flight together
\*           with another execution of fetchComments of the view;
\*   shown   the ids of the comments the view has displayed so far;
\*   phase   where a sequence of likeComment calls made one after the other
\*           stands: "none", "first" (the first call is in flight),
\*           "between", "second", "done";
\*   pair    the (comment, user) of that sequence;
\*   before  whether the like row of the pair existed when the first call
\*           was made;
\*   failed  whether a store request of a likeComment call failed since
\*           the first call of the sequence was made;
\*   create  the last createComment call of the view (see NoCreate).
\* What is remembered of a createComment call:
\*   phase   "none"; "refused" (returned before any request); "insert" (the
\*           insert is awaited); "rejected" (the insert failed); "refetch"
\*           (fetchComments is awaited); "done" (it set the tree);
\*           "unfetched" (it returned without a tree);
\*   result  what the call returned: "none" (nothing yet), "null", "data";
\*   user, post, content, parentId   the session and the arguments;
\*   rows, counter, tree   the comments, the counters and the displayed
\*           tree when the call was made;
\*   slot    the execution of fetchComments the call awaits.
NoCreate == [phase |-> "none", result |-> "none", user |-> NULL, post |-> NULL,
             content |-> << >>, parentId |-> NULL, rows |-> {},
             counter |-> [p \in Posts |-> 0], tree |-> << >>, slot |-> NULL]

NoHistory == [set |-> FALSE, raced |-> FALSE, shown |-> {}, phase |-> "none",
              pair |-> <<NULL, NULL>>, before |-> FALSE, failed |-> FALSE,
              create |-> NoCreate]

\* overlap: whether another execution of the view was in flight with this one.
IdleFetch == [pc |-> "idle", postId |-> NULL, user |-> NULL, data |-> << >>,
              overlap |-> FALSE]

SeqRange(q) == {q[i] : i \in 1 .. Len(q)}

\* The ids of the comments a tree shows, roots and replies.
ShownIds(tree) ==
    UNION {{tree[i].id} \cup {r.id : r \in SeqRange(tree[i].replies)} :
             i \in DOMAIN tree}

\* The history of view v once execution f has set the tree.
Applied(v, f, tree) ==
    [history[v] EXCEPT !.set = TRUE, !.raced = f.overlap,
                       !.shown = @ \cup ShownIds(tree)]

\* The history h once the execution in slot s has returned, having set the
\* tree or not: the createComment call that awaited it returns its data.
Returned(h, s, applied) ==
    IF h.create.phase = "refetch" /\ h.create.slot = s
    THEN [h EXCEPT !.create.phase = IF applied THEN "done" ELSE "unfetched",
                   !.create.result = "data"]
    ELSE h

FetchInFlight(v) == \E s \in FetchSlots : fetching[v][s].pc # "idle"

HasFreeFetchSlot(v) == \E s \in FetchSlots : fetching[v][s].pc = "idle"

FreeFetchSlot(v) ==
    CHOOSE s \in FetchSlots :
        /\ fetching[v][s].pc = "idle"
        /\ \A t \in FetchSlots : fetching[v][t].pc = "idle" => s <= t

\* Whether a call of fetchComments with the closure (p, u) can be taken: it
\* returns at once for an empty postId, and else takes a slot.
CanCallFetch(v, p) == p = NULL \/ HasFreeFetchSlot(v)

\* fetchComments() called in view v with the closure (p, u), up to its first
\* await: `if (!postId) return`, setLoading(true), the comments query issued.
\* The new values of fetching[v] and loading[v].
FetchCalled(v, p, u) ==
    IF p = NULL THEN fetching[v]
    ELSE [s \in FetchSlots |->
             IF s = FreeFetchSlot(v)
             THEN [pc |-> "comments", postId |-> p, user |-> u, data |-> << >>,
                   overlap |-> FetchInFlight(v)]
             ELSE IF fetching[v][s].pc # "idle"
             THEN [fetching[v][s] EXCEPT !.overlap = TRUE]
             ELSE fetching[v][s]]

LoadingCalled(v, p) == IF p = NULL THEN loading[v] ELSE TRUE

\* The comments query of execution s answers.  On an error the execution
\* logs and returns; `finally` clears loading.  Without a session the tree is
\* built and set in the same continuation; with one the likes query is
\* awaited next.
FetchCommentsAnswered(v, s, ok) ==
    LET f == fetching[v][s]
    IN /\ f.pc = "comments"
       /\  IF ~ok
            THEN /\ fetching' = [fetching EXCEPT ![v][s] = IdleFetch]
                 /\ loading' = [loading EXCEPT ![v] = FALSE]
                 /\ errorLog' = Logged(v, "Error fetching comments:", "request failed")
                 /\ history' = [history EXCEPT ![v] = Returned(@, s, FALSE)]
                 /\ UNCHANGED <<viewComments, fetched>>
            ELSE IF f.user # NULL
            THEN /\ fetching' = [fetching EXCEPT ![v][s] =
                                    [f EXCEPT !.pc = "likes",
                                              !.data = SelectComments(f.postId)]]
                 /\ UNCHANGED <<loading, viewComments, fetched, errorLog, history>>
            ELSE /\ fetching' = [fetching EXCEPT ![v][s] = IdleFetch]
                 /\ loading' = [loading EXCEPT ![v] = FALSE]
                 /\ UNCHANGED errorLog
                 /\ fetched' = [fetched EXCEPT ![v] =
                        TransformComments(SelectComments(f.postId), {})]
                 /\ viewComments' = [viewComments EXCEPT ![v] =
                        SetComments(@, CommentsWithReplies(fetched'[v]))]
                 /\ history' = [history EXCEPT ![v] =
                        Returned(Applied(v, f, viewComments'[v]), s, TRUE)]
       /\ UNCHANGED <<cardVars, storeVars, channels, mounted, postId, user, channelRef,
                      toast, liking, creating>>

\* The likes query of execution s answers: likesData, or null on a failure
\* (its error is not read), and then userLikes is empty.  The tree is built
\* and set; `finally` clears loading.
FetchLikesAnswered(v, s, ok) ==
    LET f == fetching[v][s]
    IN /\ f.pc = "likes"
       /\  LET userLikes == IF ok THEN SelectUserLikes(f.user) ELSE {}
            IN /\ fetched' = [fetched EXCEPT ![v] =
                      TransformComments(f.data, userLikes)]
               /\ viewComments' = [viewComments EXCEPT ![v] =
                      SetComments(@, CommentsWithReplies(fetched'[v]))]
               /\ history' = [history EXCEPT ![v] =
                      Returned(Applied(v, f, viewComments'[v]), s, TRUE)]
       /\ fetching' = [fetching EXCEPT ![v][s] = IdleFetch]
       /\ loading' = [loading EXCEPT ![v] = FALSE]
       /\ UNCHANGED <<cardVars, storeVars, channels, mounted, postId, user, channelRef,
                      toast, errorLog, liking, creating>>

\* The `refetch` the hook returns, called by the component.
Refetch(v) ==
    /\ mounted[v]
    /\ postId[v] # NULL
    /\ HasFreeFetchSlot(v)
    /\ fetching' = [fetching EXCEPT ![v] = FetchCalled(v, postId[v], user[v])]
    /\ loading' = [loading EXCEPT ![v] = LoadingCalled(v, postId[v])]
    /\ UNCHANGED <<cardVars, storeVars, channels, mounted, postId, user, viewComments,
                   fetched, channelRef, toast, errorLog, history, liking, creating>>

\* ------------------------------------------------------------ likeComment

NoChannel == [st |-> "none", view |-> "A", post |-> NULL, user |-> NULL,
              pending |-> 0, orphan |-> FALSE]

IdleLike == [pc |-> "idle", commentId |-> NULL, postId |-> NULL, user |-> NULL,
             orphan |-> FALSE]

IdleCreate == [pc |-> "idle", postId |-> NULL, user |-> NULL, content |-> << >>,
               parentId |-> NULL, orphan |-> FALSE]

HasFreeLikeSlot(v) == \E s \in LikeSlots : liking[v][s].pc = "idle"

FreeLikeSlot(v) ==
    CHOOSE s \in LikeSlots :
        /\ liking[v][s].pc = "idle"
        /\ \A t \in LikeSlots : liking[v][t].pc = "idle" => s <= t

\* The ids a caller can pass: those of the comments created so far.
KnownIds == {c \in CommentIds : c < nextId}

LikeInFlight(v) == \E s \in LikeSlots : liking[v][s].pc # "idle"

\* The history of view v once likeComment(c) is called: a call made while
\* none is in flight starts a sequence or, after a first call for the same
\* pair, continues it; a call made while another is in flight ends it.
LikeCalled(v, c) ==
    LET h == history[v]
    IN IF LikeInFlight(v) THEN [h EXCEPT !.phase = "none"]
       ELSE IF h.phase = "between" /\ h.pair = <<c, user[v]>>
       THEN [h EXCEPT !.phase = "second"]
       ELSE [h EXCEPT !.phase = "first", !.pair = <<c, user[v]>>,
                      !.before = (user[v] # NULL /\ comment_likes[<<c, user[v]>>] > 0),
                      !.failed = FALSE]

\* The history of view v once a request of a like call is answered; done is
\* whether the call returns with it.
LikeAnswered(v, ok, done) ==
    LET h == history[v]
    IN [h EXCEPT !.failed = @ \/ ~ok,
                 !.phase = IF ~done THEN @
                           ELSE IF @ = "first" THEN "between"
                           ELSE IF @ = "second" THEN "done"
                           ELSE @]

\* A check that takes every caller for signed in.
SessionAssumed(u) == FALSE

\* `!user`: the caller has no session.
NoSession(u) == u = NULL

\* likeComment(c) called in view v, up to its first await: without a session
\* a toast and return; with one the existence query is issued.
LikeComment(v, c) ==
    /\ mounted[v]
    /\ c \in KnownIds
    /\ IF NoSession(user[v])
       THEN /\ toast' = [toast EXCEPT ![v] =
                            "Vous devez etre connecte pour liker un commentaire"]
            /\ UNCHANGED <<liking, history>>
       ELSE /\ HasFreeLikeSlot(v)
            /\ liking' = [liking EXCEPT ![v][FreeLikeSlot(v)] =
                             [pc |-> "read", commentId |-> c, postId |-> postId[v],
                              user |-> user[v], orphan |-> FALSE]]
            /\ history' = [history EXCEPT ![v] = LikeCalled(v, c)]
            /\ UNCHANGED toast
    /\ UNCHANGED <<cardVars, storeVars, channels, mounted, postId, user, viewComments,
                   fetched, loading, channelRef, errorLog, fetching, creating>>

\* An existence query that never finds the row.
ExistingLikeNotFound(ok, c, u) == FALSE

\* The row .single() returns for (c, u): data is null when the request
\* fails and when the rows matched are not exactly one.
ExistingLike(ok, c, u) == ok /\ comment_likes[<<c, u>>] = 1

\* The existence query of call s answers (its error is not read): with a
\* row the delete is issued, without one the insert.
LikeReadAnswered(v, s, ok) ==
    LET k == liking[v][s]
    IN /\ k.pc = "read"
       /\  liking' = [liking EXCEPT ![v][s].pc =
                          IF ExistingLike(ok, k.commentId, k.user)
                          THEN "delete" ELSE "insert"]
       /\ history' = [history EXCEPT ![v] = LikeAnswered(v, ok, FALSE)]
       /\ UNCHANGED <<cardVars, storeVars, channels, mounted, postId, user, viewComments,
                      fetched, loading, channelRef, toast, errorLog, fetching,
                      creating>>

\* What a like or create call does once its mutation has succeeded:
\* `await fetchComments()` with the closure of the call.  The instance of
\* an unmounted view has no state left to set.
RefetchAfter(v, call) ==
    IF call.orphan
    THEN UNCHANGED <<fetching, loading>>
    ELSE /\ fetching' = [fetching EXCEPT ![v] = FetchCalled(v, call.postId, call.user)]
         /\ loading' = [loading EXCEPT ![v] = LoadingCalled(v, call.postId)]

CanRefetchAfter(v, call) == call.orphan \/ CanCallFetch(v, call.postId)

\* The delete of call s answers: on an error it is logged and the call
\* returns; else the comments are fetched again.
LikeDeleteAnswered(v, s, ok) ==
    LET k == liking[v][s]
    IN /\ k.pc = "delete"
       /\ CanRefetchAfter(v, k)
       /\  IF ok
            THEN /\ DeleteLike(user[v], k.commentId, k.user)
                 /\ RefetchAfter(v, k)
                 /\ UNCHANGED errorLog
            ELSE /\ errorLog' = Logged(v, "Error unliking comment:", "request failed")
                 /\ UNCHANGED <<storeVars, channels, fetching, loading>>
       /\ liking' = [liking EXCEPT ![v][s] = IdleLike]
       /\ history' = [history EXCEPT ![v] =
                          IF k.orphan THEN @ ELSE LikeAnswered(v, ok, TRUE)]
       /\ UNCHANGED <<cardVars, mounted, postId, user, viewComments, fetched, channelRef,
                      toast, creating>>

\* The error the insert of a like answers with, when it is not done.
InsertLikeError(ok, auth, c, uid) ==
    IF ~ok THEN "request failed"
    ELSE IF auth = NULL \/ auth # uid THEN "row-level security"
    ELSE IF ~CommentExists(c) THEN "foreign key"
    ELSE "unique (comment_id, user_id)"

\* The insert of call s answers: rejected by the store (the policy, a
\* foreign key, UNIQUE(comment_id, user_id)) or failed, it is logged and the
\* call returns; else the comments are fetched again.
LikeInsertAnswered(v, s, ok) ==
    LET k == liking[v][s]
    IN /\ k.pc = "insert"
       /\ CanRefetchAfter(v, k)
       /\  IF ok /\ InsertLikeAllowed(user[v], k.commentId, k.user)
            THEN /\ InsertLike(k.commentId, k.user)
                 /\ RefetchAfter(v, k)
                 /\ UNCHANGED errorLog
            ELSE /\ errorLog' = Logged(v, "Error liking comment:",
                                       InsertLikeError(ok, user[v], k.commentId, k.user))
                 /\ UNCHANGED <<storeVars, channels, fetching, loading>>
       /\ liking' = [liking EXCEPT ![v][s] = IdleLike]
       /\ history' = [history EXCEPT ![v] =
                          IF k.orphan THEN @ ELSE LikeAnswered(v, ok, TRUE)]
       /\ UNCHANGED <<cardVars, mounted, postId, user, viewComments, fetched, channelRef,
                      toast, creating>>

\* ---------------------------------------------------------- createComment

\* A content taken as it is typed.
NoTrim(content) == content

\* content.trim()
RECURSIVE TrimStart(_)
TrimStart(content) ==
    IF content # << >> /\ Head(content) = " " THEN TrimStart(Tail(content))
    ELSE content

RECURSIVE TrimEnd(_)
TrimEnd(content) ==
    IF content # << >> /\ content[Len(content)] = " "
    THEN TrimEnd(SubSeq(content, 1, Len(content) - 1))
    ELSE content

Trim(content) == TrimEnd(TrimStart(content))

\* The history of view v once createComment(content, parentId) is called
\* and has returned null (phase "refused") or awaits its insert ("insert").
CreateCalled(v, phase, content, parentId) ==
    [history[v] EXCEPT !.create =
        [phase |-> phase, result |-> IF phase = "refused" THEN "null" ELSE "none",
         user |-> user[v], post |-> postId[v], content |-> content,
         parentId |-> parentId, rows |-> comments, counter |-> posts,
         tree |-> viewComments[v], slot |-> NULL]]

\* createComment(content, parentId) called in view v, up to its await:
\* without a session, or with a blank content, a toast and return null; else
\* the insert is issued.
CreateComment(v, content, parentId) ==
    /\ mounted[v]
    /\ parentId \in KnownIds \cup {NULL}
    /\ IF NoSession(user[v])
       THEN /\ toast' = [toast EXCEPT ![v] = "Vous devez etre connecte pour commenter"]
            /\ history' = [history EXCEPT ![v] =
                               CreateCalled(v, "refused", content, parentId)]
            /\ UNCHANGED creating
       ELSE IF Trim(content) = << >>
       THEN /\ toast' = [toast EXCEPT ![v] = "Le commentaire ne peut pas etre vide"]
            /\ history' = [history EXCEPT ![v] =
                               CreateCalled(v, "refused", content, parentId)]
            /\ UNCHANGED creating
       ELSE /\ creating[v].pc = "idle"
            /\ creating' = [creating EXCEPT ![v] =
                               [pc |-> "insert", postId |-> postId[v],
                                user |-> user[v], content |-> Trim(content),
                                parentId |-> parentId, orphan |-> FALSE]]
            /\ history' = [history EXCEPT ![v] =
                               CreateCalled(v, "insert", Trim(content), parentId)]
            /\ UNCHANGED toast
    /\ UNCHANGED <<cardVars, storeVars, channels, mounted, postId, user, viewComments,
                   fetched, loading, channelRef, errorLog, fetching, liking>>

\* The history of view v once the insert of its createComment call k is
\* answered: inserted, the call awaits fetchComments, which returns at once
\* for an empty postId; not inserted, the call returns null.
CreateInserted(v, k, inserted) ==
    LET h == history[v]
    IN IF k.orphan \/ h.create.phase # "insert" THEN h
       ELSE IF ~inserted
       THEN [h EXCEPT !.create.phase = "rejected", !.create.result = "null"]
       ELSE IF k.postId = NULL
       THEN [h EXCEPT !.create.phase = "unfetched", !.create.result = "data"]
       ELSE [h EXCEPT !.create.phase = "refetch", !.create.slot = FreeFetchSlot(v)]

\* An error path that goes on to fetch the comments again.
CreateFailedRefetching(v, k, error) ==
    /\ toast' = [toast EXCEPT ![v] = "Erreur lors de la creation du commentaire"]
    /\ errorLog' = Logged(v, "Error creating comment:", error)
    /\ history' = [history EXCEPT ![v] = CreateInserted(v, k, FALSE)]
    /\ RefetchAfter(v, k)
    /\ UNCHANGED <<storeVars, channels>>

\* `if (error)` and `catch` of createComment: the error is logged, an error
\* toast is shown and the call returns null.
CreateFailed(v, k, error) ==
    /\ toast' = [toast EXCEPT ![v] = "Erreur lors de la creation du commentaire"]
    /\ errorLog' = Logged(v, "Error creating comment:", error)
    /\ history' = [history EXCEPT ![v] = CreateInserted(v, k, FALSE)]
    /\ UNCHANGED <<storeVars, channels, fetching, loading>>

\* The insert of createComment answers: rejected or failed, an error toast
\* and null; else the success toast and the comments are fetched again.
CreateAnswered(v, ok) ==
    LET k == creating[v]
        row == CommentRow(nextId, k.user, k.postId, k.content, k.parentId, nextId)
    IN /\ k.pc = "insert"
       /\ CanRefetchAfter(v, k)
       /\  IF ok /\ nextId <= MaxComments /\ InsertCommentAllowed(user[v], row)
            THEN /\ InsertComment(row)
                 /\ RefetchAfter(v, k)
                 /\ toast' = [toast EXCEPT ![v] = "Commentaire ajoute avec succes"]
                 /\ history' = [history EXCEPT ![v] = CreateInserted(v, k, TRUE)]
                 /\ UNCHANGED errorLog
            ELSE CreateFailed(v, k, IF ok THEN "rejected" ELSE "request failed")
       /\ creating' = [creating EXCEPT ![v] = IdleCreate]
       /\ UNCHANGED <<cardVars, mounted, postId, user, viewComments, fetched, channelRef,
                      liking>>

\* ------------------------------------------------------ the realtime effect

RemovedChannel == [NoChannel EXCEPT !.st = "removed"]

HasFreeChannel == \E c \in ChanIds : channels[c].st = "none"

\* The channel supabase.channel(channelName) creates: the random sessionId
\* makes its name new.
NewChannel ==
    CHOOSE c \in ChanIds :
        /\ channels[c].st = "none"
        /\ \A d \in ChanIds : channels[d].st = "none" => c <= d

\* The cleanup the effect returned, run before the effect runs again and on
\* unmount: removeChannel(channelRef.current) in a try.  removed is whether
\* the call removed the channel, or threw and left it.  The channels after it
\* (channelRef.current is null after it).
CleanedUp(chs, ref, removed) ==
    IF ref # NULL /\ removed THEN [chs EXCEPT ![ref] = RemovedChannel] ELSE chs

\* What the cleanup logs: the error removeChannel threw.
CleanupLogged(v, removed) ==
    IF channelRef[v] # NULL /\ ~removed
    THEN Logged(v, "Error removing comments channel:", "threw")
    ELSE errorLog

\* What creating the channel can come to: done; supabase.channel() threw, and
\* no channel exists; .on() or .subscribe() threw, and the channel exists
\* while line 226 never stored it.
CreateOutcomes == {"created", "threw before", "threw after"}

\* The body of the effect for the closure (p, u), from the channels chs and
\* channelRef.current = ref: the channels after it.
Subscribing(v, chs, ref, p, u, outcome) ==
    LET cleared == IF ref # NULL THEN [chs EXCEPT ![ref] = RemovedChannel] ELSE chs
    IN IF p = NULL THEN chs
       ELSE IF outcome = "threw before" THEN cleared
       ELSE [cleared EXCEPT ![NewChannel] =
                [st |-> "joining", view |-> v, post |-> p, user |-> u,
                 pending |-> 0, orphan |-> FALSE]]

\* channelRef.current after the body.
SubscribedRef(ref, p, outcome) ==
    IF p = NULL THEN ref
    ELSE IF outcome = "created" THEN NewChannel
    ELSE NULL

\* Both effects run for the closure (p, u) in view v: the cleanup of the
\* realtime effect when it ran before, fetchComments() of the mount effect,
\* then the body of the realtime effect.
EffectsRun(v, p, u, cleanup, removed, outcome) ==
    /\ CanCallFetch(v, p)
    /\ p # NULL => HasFreeChannel
    /\ fetching' = [fetching EXCEPT ![v] = FetchCalled(v, p, u)]
    /\ loading' = [loading EXCEPT ![v] = LoadingCalled(v, p)]
    /\ channels' = Subscribing(v,
                      IF cleanup THEN CleanedUp(channels, channelRef[v], removed)
                      ELSE channels,
                      IF cleanup THEN NULL ELSE channelRef[v], p, u, outcome)
    /\ channelRef' = [channelRef EXCEPT ![v] =
                         SubscribedRef(IF cleanup THEN NULL ELSE @, p, outcome)]
    /\ errorLog' =
          IF p # NULL /\ outcome # "created"
          THEN Logged(v, "Error setting up comments channel:", outcome)
          ELSE IF cleanup THEN CleanupLogged(v, removed)
          ELSE errorLog

\* The component mounts with postId p: the state is initialised and both
\* effects run.
Mount(v, p) ==
    /\ ~mounted[v]
    /\ mounted' = [mounted EXCEPT ![v] = TRUE]
    /\ postId' = [postId EXCEPT ![v] = p]
    /\ \E outcome \in CreateOutcomes : EffectsRun(v, p, user[v], FALSE, TRUE, outcome)
    /\ UNCHANGED <<cardVars, storeVars, user, viewComments, fetched, toast, history, liking,
                   creating>>

\* A render with another postId: fetchComments is a new function, so both
\* effects run again.
ChangePost(v, p) ==
    /\ mounted[v]
    /\ p # postId[v]
    /\ postId' = [postId EXCEPT ![v] = p]
    /\ \E removed \in BOOLEAN : \E outcome \in CreateOutcomes :
          EffectsRun(v, p, user[v], TRUE, removed, outcome)
    /\ UNCHANGED <<cardVars, storeVars, mounted, user, viewComments, fetched, toast,
                   history, liking, creating>>

\* The session changes (sign in, sign out, another user): in a mounted view
\* fetchComments is a new function, so both effects run again.
ChangeUser(v, u) ==
    /\ u # user[v]
    /\ user' = [user EXCEPT ![v] = u]
    /\ IF mounted[v]
       THEN \E removed \in BOOLEAN : \E outcome \in CreateOutcomes :
               EffectsRun(v, postId[v], u, TRUE, removed, outcome)
       ELSE UNCHANGED <<fetching, loading, channels, channelRef, errorLog>>
    /\ UNCHANGED <<cardVars, storeVars, mounted, postId, viewComments, fetched, toast,
                   history, liking, creating>>

\* The component unmounts: the cleanup runs and the state is dropped.  The
\* executions in flight have no state left to set; the mutations in flight
\* still reach the store; a channel left behind calls back into nothing.
Unmount(v) ==
    /\ mounted[v]
    /\ mounted' = [mounted EXCEPT ![v] = FALSE]
    /\ \E removed \in BOOLEAN :
          /\ channels' = [c \in ChanIds |->
                 LET ch == CleanedUp(channels, channelRef[v], removed)[c]
                 IN IF ch.st \in {"joining", "joined"} /\ ch.view = v
                    THEN [ch EXCEPT !.orphan = TRUE] ELSE ch]
          /\ errorLog' = CleanupLogged(v, removed)
    /\ channelRef' = [channelRef EXCEPT ![v] = NULL]
    /\ viewComments' = [viewComments EXCEPT ![v] = << >>]
    /\ fetched' = [fetched EXCEPT ![v] = << >>]
    /\ history' = [history EXCEPT ![v] = NoHistory]
    /\ loading' = [loading EXCEPT ![v] = FALSE]
    /\ fetching' = [fetching EXCEPT ![v] = [s \in FetchSlots |-> IdleFetch]]
    /\ liking' = [liking EXCEPT ![v] =
                     [s \in LikeSlots |->
                         IF @[s].pc = "idle" THEN @[s] ELSE [@[s] EXCEPT !.orphan = TRUE]]]
    /\ creating' = [creating EXCEPT ![v] =
                       IF @.pc = "idle" THEN @ ELSE [@ EXCEPT !.orphan = TRUE]]
    /\ UNCHANGED <<cardVars, storeVars, postId, user, toast>>

\* The realtime service confirms the subscription of channel c.
Subscribed(c) ==
    /\ channels[c].st = "joining"
    /\ channels' = [channels EXCEPT ![c].st = "joined"]
    /\ UNCHANGED <<cardVars, storeVars, viewVars, callVars>>

\* A change notification queued on channel c is handled: the callback of the
\* binding calls the fetchComments of the effect's closure.
HandleNotification(c) ==
    LET ch == channels[c]
    IN /\ ch.st = "joined"
       /\ ch.pending > 0
       /\ channels' = [channels EXCEPT ![c].pending = @ - 1]
       /\ IF ch.orphan
          THEN UNCHANGED <<fetching, loading>>
          ELSE /\ CanCallFetch(ch.view, ch.post)
               /\ fetching' = [fetching EXCEPT ![ch.view] =
                                  FetchCalled(ch.view, ch.post, ch.user)]
               /\ loading' = [loading EXCEPT ![ch.view] =
                                 LoadingCalled(ch.view, ch.post)]
       /\ UNCHANGED <<cardVars, storeVars, mounted, postId, user, viewComments, fetched,
                      channelRef, toast, errorLog, history, liking, creating>>

\* ------------------------------------------------------------ the post card
\* PredictionCard, with the data layer it calls (usePostActions, useAuth):
\* followUser and savePost switch the relation on and off, as the menu
\* labels them by the card's flags; blockUser blocks; the three checks
\* read the relation of the signed-in user.  A request that fails throws.

\* The three checks of Promise.all in loadActionStates.
Checks == {"followed", "saved", "blocked"}

IdleLoad == [pc |-> "idle", user |-> NULL, post |-> NULL, pending |-> {},
             followed |-> FALSE, saved |-> FALSE, blocked |-> FALSE,
             orphan |-> FALSE]

IdleMenu == [pc |-> "idle", action |-> "none", user |-> NULL, post |-> NULL,
             orphan |-> FALSE]

\* The actions of the menu that handleMenuAction switches on.
MenuActions == {"follow", "save", "report", "hide", "block"}

IdlePostLike == [pc |-> "idle", isLiked |-> FALSE, user |-> NULL, post |-> NULL,
                 orphan |-> FALSE]

IdleShare == [pc |-> "idle", via |-> "none", user |-> NULL, post |-> NULL,
              orphan |-> FALSE]

\* The prediction the feed hands to the card of user u for post p:
\* is_liked and likes as the store has them.
PredictionOf(u, p) ==
    [is_liked |-> <<u, p>> \in post_likes,
     likes |-> Cardinality({k \in post_likes : k[2] = p})]

\* The data-layer operation handleMenuAction calls for an action.
DataCallOf(action) ==
    CASE action = "follow" -> "followUser"
      [] action = "save" -> "savePost"
      [] action = "report" -> "reportPost"
      [] action = "hide" -> "hidePost"
      [] action = "block" -> "blockUser"

\* A requireAuth() that lets everyone through.
RequireAuthSkipped == TRUE

\* requireAuth(): whether a session exists (it prompts when none does).
RequireAuth == cardUser # NULL

HasFreeLoadSlot == \E s \in LoadSlots : loadingStates[s].pc = "idle"
FreeLoadSlot == CHOOSE s \in LoadSlots : loadingStates[s].pc = "idle"

\* `if (user && !actionStatesLoaded)` of loadActionStates.
ShouldLoad(u, loaded) == u # NULL /\ ~loaded

\* The effect of the card runs after a render with the session u and the
\* post p: loadActionStates starts its three checks, or does nothing.
LoadActionStates(u, p) ==
    IF ShouldLoad(u, actionStatesLoaded)
    THEN /\ HasFreeLoadSlot
         /\ loadingStates' = [loadingStates EXCEPT ![FreeLoadSlot] =
                                  [IdleLoad EXCEPT !.pc = "checking", !.user = u,
                                                   !.post = p, !.pending = Checks]]
    ELSE UNCHANGED loadingStates

\* What checkIfUserFollowed, checkIfPostSaved, checkIfUserBlocked answer.
CheckResult(check, u, p) ==
    CASE check = "followed" -> <<u, p>> \in user_follows
      [] check = "saved" -> <<u, p>> \in saved_posts
      [] check = "blocked" -> <<u, p>> \in blocked_users

\* setIsBlocked(value).
SetIsBlocked(old, new) == new

\* The card is mounted with the session u on the post p: useState
\* initialises the flags, and the effect runs.
MountCard(u, p) ==
    /\ ~cardMounted
    /\ cardMounted' = TRUE
    /\ cardUser' = u
    /\ prediction' = p
    /\ isFollowed' = FALSE
    /\ isSaved' = FALSE
    /\ isBlocked' = FALSE
    /\ actionStatesLoaded' = FALSE
    /\ cardToast' = "none"
    /\ cardLog' = "none"
    /\ IF u # NULL
       THEN /\ HasFreeLoadSlot
            /\ loadingStates' = [loadingStates EXCEPT ![FreeLoadSlot] =
                                     [IdleLoad EXCEPT !.pc = "checking", !.user = u,
                                                      !.post = p, !.pending = Checks]]
       ELSE UNCHANGED loadingStates
    /\ cardInitial' = PredictionOf(u, p)
    /\ isLiked' = PredictionOf(u, p).is_liked
    /\ likesCount' = PredictionOf(u, p).likes
    /\ authPrompt' = "none"
    /\ UNCHANGED <<post_likes, likingPost, sharing, dataCall,
                   storeVars, channels, viewVars, callVars, actionVars, menuAction>>

\* The card is unmounted: what is in flight goes on, with no state to set.
UnmountCard ==
    /\ cardMounted
    /\ cardMounted' = FALSE
    /\ loadingStates' = [s \in LoadSlots |->
                             IF loadingStates[s].pc = "idle" THEN loadingStates[s]
                             ELSE [loadingStates[s] EXCEPT !.orphan = TRUE]]
    /\ menuAction' = IF menuAction.pc = "idle" THEN menuAction
                     ELSE [menuAction EXCEPT !.orphan = TRUE]
    /\ likingPost' = [s \in PostLikeSlots |->
                          IF likingPost[s].pc = "idle" THEN likingPost[s]
                          ELSE [likingPost[s] EXCEPT !.orphan = TRUE]]
    /\ sharing' = IF sharing.pc = "idle" THEN sharing
                  ELSE [sharing EXCEPT !.orphan = TRUE]
    /\ UNCHANGED <<post_likes, isLiked, likesCount, cardInitial, dataCall, authPrompt,
                   storeVars, channels, viewVars, callVars, actionVars, cardUser,
                   prediction, isFollowed, isSaved, isBlocked, actionStatesLoaded,
                   cardToast, cardLog>>

\* The session of the card changes (sign-in, sign-out): a render with the
\* new user, and the effect runs (user is one of its dependencies).
ChangeCardUser(u) ==
    /\ cardMounted
    /\ u # cardUser
    /\ cardUser' = u
    /\ LoadActionStates(u, prediction)
    /\ UNCHANGED <<likeVars, sharing, dataCall, authPrompt,
                   storeVars, channels, viewVars, callVars, actionVars, cardMounted,
                   prediction, isFollowed, isSaved, isBlocked, actionStatesLoaded,
                   menuAction, cardToast, cardLog>>

\* The card is rendered with another post (prediction.id is a dependency
\* of the effect).
ChangePrediction(p) ==
    /\ cardMounted
    /\ p # prediction
    /\ prediction' = p
    /\ LoadActionStates(cardUser, p)
    /\ UNCHANGED <<likeVars, sharing, dataCall, authPrompt,
                   storeVars, channels, viewVars, callVars, actionVars, cardMounted,
                   cardUser, isFollowed, isSaved, isBlocked, actionStatesLoaded,
                   menuAction, cardToast, cardLog>>

\* The execution l with the answer of one of its checks.
Checked(l, check) ==
    [l EXCEPT !.pending = @ \ {check},
              !.followed = IF check = "followed"
                           THEN CheckResult(check, l.user, l.post) ELSE @,
              !.saved = IF check = "saved"
                        THEN CheckResult(check, l.user, l.post) ELSE @,
              !.blocked = IF check = "blocked"
                          THEN CheckResult(check, l.user, l.post) ELSE @]

\* One check of the execution s answers, with what the store holds now.
\* A failed check rejects Promise.all: the catch logs and nothing is set.
\* With the last of the three answers Promise.all resolves: the flags are
\* set to what the checks answered, and actionStatesLoaded to true.
CheckAnswered(s, check, ok) ==
    LET l == loadingStates[s]
        done == Checked(l, check)
    IN /\ l.pc = "checking"
       /\ check \in l.pending
       /\ loadingStates' = [loadingStates EXCEPT ![s] =
                                IF ok /\ done.pending # {} THEN done ELSE IdleLoad]
       /\ cardLog' = IF ok \/ l.orphan THEN cardLog ELSE "Error loading action states:"
       /\ IF ok /\ done.pending = {} /\ ~l.orphan
          THEN /\ isFollowed' = done.followed
               /\ isSaved' = done.saved
               /\ isBlocked' = SetIsBlocked(isBlocked, done.blocked)
               /\ actionStatesLoaded' = TRUE
          ELSE UNCHANGED <<isFollowed, isSaved, isBlocked, actionStatesLoaded>>
       /\ UNCHANGED <<likeVars, sharing, dataCall, authPrompt,
                   storeVars, channels, viewVars, callVars, actionVars, cardMounted,
                      cardUser, prediction, menuAction, cardToast>>

\* handleMenuAction(action), from the menu of a card that renders (a
\* blocked card renders null) and whose buttons are not disabled by a
\* running action: without a session it returns; else the data-layer call
\* of the action is awaited.
HandleMenuAction(action) ==
    /\ cardMounted
    /\ ~isBlocked
    /\ menuAction.pc = "idle"
    /\ IF RequireAuth
       THEN /\ menuAction' = [IdleMenu EXCEPT !.pc = "call", !.action = action,
                                              !.user = cardUser, !.post = prediction]
            /\ dataCall' = DataCallOf(action)
            /\ UNCHANGED authPrompt
       ELSE /\ authPrompt' = action
            /\ UNCHANGED <<menuAction, dataCall>>
    /\ UNCHANGED <<likeVars, sharing,
                   storeVars, channels, viewVars, callVars, actionVars, cardMounted,
                   cardUser, prediction, isFollowed, isSaved, isBlocked,
                   actionStatesLoaded, loadingStates, cardToast, cardLog>>

\* followUser / savePost: the pair is switched on or off.
Switched(rel, pair) == IF pair \in rel THEN rel \ {pair} ELSE rel \cup {pair}

\* `catch` of handleMenuAction.
MenuFailed(m) ==
    /\ menuAction' = IdleMenu
    /\ cardLog' = IF m.orphan THEN cardLog ELSE "Error executing action"
    /\ cardToast' = IF m.orphan THEN cardToast
                    ELSE "Une erreur est survenue lors de l'operation"

\* The data-layer call of the action answers: it has changed the store, or
\* it throws.  follow, save and block go on to check the state again;
\* report is done; hide shows its toast.
MenuCallAnswered(ok) ==
    LET m == menuAction
        pair == <<m.user, m.post>>
    IN /\ m.pc = "call"
       /\ IF ok
          THEN /\ user_follows' = IF m.action = "follow"
                                  THEN Switched(user_follows, pair) ELSE user_follows
               /\ saved_posts' = IF m.action = "save"
                                 THEN Switched(saved_posts, pair) ELSE saved_posts
               /\ blocked_users' = IF m.action = "block"
                                   THEN blocked_users \cup {pair} ELSE blocked_users
               /\ menuAction' = IF m.action \in {"follow", "save", "block"}
                                THEN [m EXCEPT !.pc = "check"] ELSE IdleMenu
               /\ cardToast' = IF m.action = "hide" /\ ~m.orphan
                               THEN "Ce post a ete masque" ELSE cardToast
               /\ UNCHANGED cardLog
          ELSE /\ MenuFailed(m)
               /\ UNCHANGED actionVars
       /\ UNCHANGED <<likeVars, sharing, dataCall, authPrompt,
                   storeVars, channels, viewVars, callVars, cardMounted, cardUser,
                      prediction, isFollowed, isSaved, isBlocked, actionStatesLoaded,
                      loadingStates>>

\* The check after the action answers: the flag of the action is set to
\* what the store holds now.
MenuCheckAnswered(ok) ==
    LET m == menuAction
        pair == <<m.user, m.post>>
    IN /\ m.pc = "check"
       /\ IF ok
          THEN /\ menuAction' = IdleMenu
               /\ isFollowed' = IF m.action = "follow" /\ ~m.orphan
                                THEN pair \in user_follows ELSE isFollowed
               /\ isSaved' = IF m.action = "save" /\ ~m.orphan
                             THEN pair \in saved_posts ELSE isSaved
               /\ isBlocked' = IF m.action = "block" /\ ~m.orphan
                               THEN SetIsBlocked(isBlocked, pair \in blocked_users)
                               ELSE isBlocked
               /\ UNCHANGED <<cardToast, cardLog>>
          ELSE /\ MenuFailed(m)
               /\ UNCHANGED <<isFollowed, isSaved, isBlocked>>
       /\ UNCHANGED <<likeVars, sharing, dataCall, authPrompt,
                   storeVars, channels, viewVars, callVars, actionVars, cardMounted,
                      cardUser, prediction, actionStatesLoaded, loadingStates>>

HasFreePostLikeSlot == \E s \in PostLikeSlots : likingPost[s].pc = "idle"
FreePostLikeSlot == CHOOSE s \in PostLikeSlots : likingPost[s].pc = "idle"

\* handleLike(), from the like button of a card that renders: without a
\* session it returns; else likePost is awaited.  The call keeps the
\* isLiked of the render it was made in.
HandleLike ==
    /\ cardMounted
    /\ ~isBlocked
    /\ likesCount \in 0 - MaxLikesCount .. MaxLikesCount
    /\ IF RequireAuth
       THEN /\ HasFreePostLikeSlot
            /\ likingPost' = [likingPost EXCEPT ![FreePostLikeSlot] =
                                  [IdlePostLike EXCEPT !.pc = "call", !.isLiked = isLiked,
                                                       !.user = cardUser,
                                                       !.post = prediction]]
            /\ dataCall' = "likePost"
            /\ UNCHANGED authPrompt
       ELSE /\ authPrompt' = "like"
            /\ UNCHANGED <<likingPost, dataCall>>
    /\ UNCHANGED <<post_likes, isLiked, likesCount, cardInitial, sharing,
                   storeVars, channels, viewVars, callVars, actionVars, cardMounted,
                   cardUser, prediction, isFollowed, isSaved, isBlocked,
                   actionStatesLoaded, loadingStates, menuAction, cardToast, cardLog>>

\* likePost of the call s answers: it has switched the like of the post,
\* and the mirror follows the isLiked the call has kept: a liked card
\* counts one less and is not liked, another one more and is liked.  A
\* likePost that throws is logged.
LikePostAnswered(s, ok) ==
    LET k == likingPost[s]
    IN /\ k.pc = "call"
       /\ likingPost' = [likingPost EXCEPT ![s] = IdlePostLike]
       /\ post_likes' = IF ok THEN Switched(post_likes, <<k.user, k.post>>)
                        ELSE post_likes
       /\ IF ok /\ ~k.orphan
          THEN /\ likesCount' = IF k.isLiked THEN likesCount - 1 ELSE likesCount + 1
               /\ isLiked' = ~k.isLiked
          ELSE UNCHANGED <<isLiked, likesCount>>
       /\ cardLog' = IF ok \/ k.orphan THEN cardLog ELSE "Error liking post:"
       /\ UNCHANGED <<cardInitial, sharing, dataCall, authPrompt,
                      storeVars, channels, viewVars, callVars, actionVars, cardMounted,
                      cardUser, prediction, isFollowed, isSaved, isBlocked,
                      actionStatesLoaded, loadingStates, menuAction, cardToast>>

\* handleShare(), from a share button of a card that renders: without a
\* session it returns; else the share sheet of the browser (navigator.share,
\* where it exists) or the clipboard is awaited.
HandleShare(hasShare) ==
    /\ cardMounted
    /\ ~isBlocked
    /\ sharing.pc = "idle"
    /\ IF RequireAuth
       THEN /\ sharing' = [IdleShare EXCEPT !.pc = "share",
                                            !.via = IF hasShare THEN "social" ELSE "link",
                                            !.user = cardUser, !.post = prediction]
            /\ UNCHANGED authPrompt
       ELSE /\ authPrompt' = "share"
            /\ UNCHANGED sharing
    /\ UNCHANGED <<likeVars, dataCall,
                   storeVars, channels, viewVars, callVars, actionVars, cardMounted,
                   cardUser, prediction, isFollowed, isSaved, isBlocked,
                   actionStatesLoaded, loadingStates, menuAction, cardToast, cardLog>>

\* The two `catch` of handleShare: a cancelled share is only logged with
\* console.log; the clipboard's shows an error toast.
ShareFailed(h) ==
    /\ sharing' = IdleShare
    /\ cardToast' = IF h.via = "link" /\ ~h.orphan
                    THEN "Impossible de copier le lien" ELSE cardToast

\* navigator.share or navigator.clipboard.writeText answers: the clipboard
\* shows its toast, and sharePost is awaited; or it throws (the user
\* has cancelled, the clipboard is denied).
ShareAnswered(ok) ==
    LET h == sharing
    IN /\ h.pc = "share"
       /\ IF ok
          THEN /\ sharing' = [h EXCEPT !.pc = "record"]
               /\ dataCall' = "sharePost"
               /\ cardToast' = IF h.via = "link" /\ ~h.orphan
                               THEN "Lien copie dans le presse-papier !"
                               ELSE cardToast
          ELSE /\ ShareFailed(h)
               /\ UNCHANGED dataCall
       /\ UNCHANGED <<likeVars, authPrompt,
                      storeVars, channels, viewVars, callVars, actionVars, cardMounted,
                      cardUser, prediction, isFollowed, isSaved, isBlocked,
                      actionStatesLoaded, loadingStates, menuAction, cardLog>>

\* sharePost answers, or throws into the same `catch`.
SharePostAnswered(ok) ==
    LET h == sharing
    IN /\ h.pc = "record"
       /\ IF ok
          THEN /\ sharing' = IdleShare
               /\ UNCHANGED cardToast
          ELSE ShareFailed(h)
       /\ UNCHANGED <<likeVars, dataCall, authPrompt,
                      storeVars, channels, viewVars, callVars, actionVars, cardMounted,
                      cardUser, prediction, isFollowed, isSaved, isBlocked,
                      actionStatesLoaded, loadingStates, menuAction, cardLog>>

\* ------------------------------------------------------------ other clients

\* Another session, signed in as u, deletes its comment c.
ClientDeletesComment(u, c) ==
    /\ \E r \in comments : r.id = c /\ r.user_id = u
    /\ DeleteComment(u, c)
    /\ UNCHANGED <<viewVars, callVars, cardVars>>

\* Another session, signed in as u, comments post p.
ClientInsertsComment(u, p, parentId) ==
    LET row == CommentRow(nextId, u, p, <<"a">>, parentId, nextId)
    IN /\ nextId <= MaxComments
       /\ InsertCommentAllowed(u, row)
       /\ InsertComment(row)
       /\ UNCHANGED <<viewVars, callVars, cardVars>>

\* Another session, signed in as u, likes comment c.
ClientInsertsLike(u, c) ==
    /\ InsertLikeAllowed(u, c, u)
    /\ InsertLike(c, u)
    /\ UNCHANGED <<viewVars, callVars, cardVars>>

\* Another session, signed in as u, removes its like of comment c.
ClientDeletesLike(u, c) ==
    /\ comment_likes[<<c, u>>] > 0
    /\ DeleteLike(u, c, u)
    /\ UNCHANGED <<viewVars, callVars, cardVars>>

\* A session with the identity auth (NULL: the anonymous key) sends the
\* statement, whatever row it names; a statement the store refuses changes
\* nothing.
Refused == UNCHANGED vars

RequestInsertComment(auth, uid, p, parentId) ==
    LET row == CommentRow(nextId, uid, p, <<"a">>, parentId, nextId)
    IN IF nextId <= MaxComments /\ InsertCommentAllowed(auth, row)
       THEN InsertComment(row) /\ UNCHANGED <<viewVars, callVars, cardVars>>
       ELSE Refused

RequestUpdateComment(auth, c, content, uid) ==
    IF UpdateCommentAllowed(auth, c, content, uid)
    THEN UpdateComment(c, content, uid) /\ UNCHANGED <<viewVars, callVars, cardVars>>
    ELSE Refused

RequestDeleteComment(auth, c) ==
    /\ DeleteComment(auth, c)
    /\ UNCHANGED <<viewVars, callVars, cardVars>>

RequestInsertLike(auth, c, uid) ==
    IF InsertLikeAllowed(auth, c, uid)
    THEN InsertLike(c, uid) /\ UNCHANGED <<viewVars, callVars, cardVars>>
    ELSE Refused

RequestDeleteLike(auth, c, uid) ==
    /\ DeleteLike(auth, c, uid)
    /\ UNCHANGED <<viewVars, callVars, cardVars>>

\* The post p is deleted (by its author, or by a cascade from elsewhere).
PostDeleted(p) ==
    /\ DeletePost(p)
    /\ UNCHANGED <<viewVars, callVars, cardVars>>

\* The account of user u is deleted.
UserDeleted(u) ==
    /\ DeleteUser(u)
    /\ UNCHANGED <<viewVars, callVars, cardVars>>

\* ------------------------------------------------------- initial states

\* No call in flight in any view.
InitCalls ==
    /\ fetching = [v \in Views |-> [s \in FetchSlots |-> IdleFetch]]
    /\ liking = [v \in Views |-> [s \in LikeSlots |-> IdleLike]]
    /\ creating = [v \in Views |-> IdleCreate]

\* No transaction is open.
InitTxns ==
    /\ txns = [u \in Users |-> IdleTxn]
    /\ locks = [p \in Posts |-> NULL]

\* Every user and every post has its row.
InitRows ==
    /\ auth_users = Users
    /\ public_posts = Posts

\* The card is not mounted: nobody follows, has saved or has blocked
\* anything, and the card's state is what useState initialises it to.
InitCard ==
    /\ user_follows = {}
    /\ saved_posts = {}
    /\ blocked_users = {}
    /\ cardMounted = FALSE
    /\ cardUser = NULL
    /\ prediction = 1
    /\ isFollowed = FALSE
    /\ isSaved = FALSE
    /\ isBlocked = FALSE
    /\ actionStatesLoaded = FALSE
    /\ loadingStates = [s \in LoadSlots |-> IdleLoad]
    /\ menuAction = IdleMenu
    /\ cardToast = "none"
    /\ cardLog = "none"
    /\ post_likes = {}
    /\ isLiked = FALSE
    /\ likesCount = 0
    /\ cardInitial = [is_liked |-> FALSE, likes |-> 0]
    /\ likingPost = [s \in PostLikeSlots |-> IdlePostLike]
    /\ sharing = IdleShare
    /\ dataCall = "none"
    /\ authPrompt = "none"

\* The hook's state as useState and useRef initialise it.
InitHookState ==
    /\ viewComments = [v \in Views |-> << >>]
    /\ fetched = [v \in Views |-> << >>]
    /\ loading = [v \in Views |-> FALSE]
    /\ toast = [v \in Views |-> "none"]
    /\ errorLog = [v \in Views |-> NoError]
    /\ history = [v \in Views |-> NoHistory]

\* The store right after the migration: no comment, no like, counters 0.
InitStore ==
    /\ comments = {}
    /\ comment_likes = [k \in CommentIds \X Users |-> 0]
    /\ posts = [p \in Posts |-> 0]
    /\ nextId = 1
    /\ InitTxns
    /\ InitRows

\* ---- the specification of tree construction: fetches over any store

\* The stores a sequence of inserts and deletes leaves: ids and creation
\* times are distinct, and a parent exists and is older than its reply.
TreeAttrs == [post_id : Posts, parent_id : CommentIds \cup {NULL},
              created_at : CommentIds]

TreeRows(ids, attr) ==
    {CommentRow(i, 1, attr[i].post_id, <<"a">>, attr[i].parent_id,
                attr[i].created_at) : i \in ids}

TreeStoreOk(ids, attr) ==
    /\ \A i, j \in ids : i # j => attr[i].created_at # attr[j].created_at
    /\ \A i \in ids :
          attr[i].parent_id # NULL =>
              /\ attr[i].parent_id \in ids
              /\ attr[attr[i].parent_id].created_at < attr[i].created_at

InitTree ==
    /\ \E ids \in SUBSET CommentIds : \E attr \in [ids -> TreeAttrs] :
          /\ TreeStoreOk(ids, attr)
          /\ comments = TreeRows(ids, attr)
          /\ posts = [p \in Posts |-> CountComments(TreeRows(ids, attr), p)]
    /\ comment_likes = [k \in CommentIds \X Users |-> 0]
    /\ nextId = MaxComments + 1
    /\ InitTxns
    /\ InitRows
    /\ channels = [c \in ChanIds |-> NoChannel]
    /\ mounted = [v \in Views |-> v = "A"]
    /\ postId \in {[v \in Views |-> IF v = "A" THEN p ELSE NULL] : p \in Posts}
    /\ user \in {[v \in Views |-> IF v = "A" THEN u ELSE NULL] : u \in {NULL, 1}}
    /\ channelRef = [v \in Views |-> NULL]
    /\ InitHookState
    /\ InitCalls
    /\ InitCard

NextTree ==
    \/ Refetch("A")
    \/ \E s \in FetchSlots, ok \in BOOLEAN : FetchCommentsAnswered("A", s, ok)
    \/ \E s \in FetchSlots, ok \in BOOLEAN : FetchLikesAnswered("A", s, ok)

SpecTree == InitTree /\ [][NextTree]_vars

\* ---- the specifications of the store: the statements of any clients

\* No view is mounted and no channel exists.
InitNoView ==
    /\ channels = [c \in ChanIds |-> NoChannel]
    /\ mounted = [v \in Views |-> FALSE]
    /\ postId = [v \in Views |-> NULL]
    /\ user = [v \in Views |-> NULL]
    /\ channelRef = [v \in Views |-> NULL]
    /\ InitHookState
    /\ InitCalls
    /\ InitCard

InitStoreOnly == InitStore /\ InitNoView

\* Cascades: the sessions of both users comment both posts, reply, like and
\* unlike, and delete their comments; posts and accounts are deleted.
NextCascade ==
    \/ \E u \in Users, p \in Posts, c \in CommentIds \cup {NULL} :
          ClientInsertsComment(u, p, c)
    \/ \E u \in Users, c \in CommentIds : ClientDeletesComment(u, c)
    \/ \E u \in Users, c \in CommentIds : ClientInsertsLike(u, c)
    \/ \E u \in Users, c \in CommentIds : ClientDeletesLike(u, c)
    \/ \E p \in Posts : PostDeleted(p)
    \/ \E u \in Users : UserDeleted(u)

SpecCascade == InitStoreOnly /\ [][NextCascade]_vars

\* Access: sessions of both users and anonymous sessions send every
\* statement, for their own rows and for the rows of others.
Identities == Users \cup {NULL}
NewContents == {<<"b">>}

\* The statements the session auth sends.
RequestBy(auth) ==
    \/ \E uid \in Users, c \in {NULL, 1} : RequestInsertComment(auth, uid, 1, c)
    \/ \E c \in CommentIds, content \in NewContents, uid \in Users :
          RequestUpdateComment(auth, c, content, uid)
    \/ \E c \in CommentIds : RequestDeleteComment(auth, c)
    \/ \E c \in CommentIds, uid \in Users : RequestInsertLike(auth, c, uid)
    \/ \E c \in CommentIds, uid \in Users : RequestDeleteLike(auth, c, uid)

NextAccess == \E auth \in Identities : RequestBy(auth)

SpecAccess == InitStoreOnly /\ [][NextAccess]_vars

\* Blocking: the card of post 1 is mounted and unmounted, with or without
\* a session that comes and goes; the user picks "block" in the menu; the
\* checks of the load and the requests of the action answer in any order.
CardUsers == {NULL, 1}

NextBlock ==
    \/ \E u \in CardUsers : MountCard(u, 1)
    \/ UnmountCard
    \/ \E u \in CardUsers : ChangeCardUser(u)
    \/ \E s \in LoadSlots, check \in Checks, ok \in BOOLEAN : CheckAnswered(s, check, ok)
    \/ HandleMenuAction("block")
    \/ \E ok \in BOOLEAN : MenuCallAnswered(ok)
    \/ \E ok \in BOOLEAN : MenuCheckAnswered(ok)

SpecBlock == InitStoreOnly /\ [][NextBlock]_vars

\* Pairs: the card is mounted on a post with or without a session; the
\* session and the post it is rendered with change; the checks of the loads
\* answer or fail; the user follows and unfollows the author.
NextPair ==
    \/ \E u \in CardUsers, p \in Posts : MountCard(u, p)
    \/ \E u \in CardUsers : ChangeCardUser(u)
    \/ \E p \in Posts : ChangePrediction(p)
    \/ \E s \in LoadSlots, check \in Checks, ok \in BOOLEAN : CheckAnswered(s, check, ok)
    \/ HandleMenuAction("follow")
    \/ MenuCallAnswered(TRUE)
    \/ MenuCheckAnswered(TRUE)

SpecPair == InitStoreOnly /\ [][NextPair]_vars

\* Likes of the post: the card of post 1 is mounted and unmounted, with or
\* without a session; the user presses the like button, also while a like
\* is in flight; likePost answers or throws; the checks of the load answer.
NextLikePost ==
    \/ \E u \in CardUsers : MountCard(u, 1)
    \/ UnmountCard
    \/ \E s \in LoadSlots, check \in Checks : CheckAnswered(s, check, TRUE)
    \/ HandleLike
    \/ \E s \in PostLikeSlots, ok \in BOOLEAN : LikePostAnswered(s, ok)

SpecLikePost == InitStoreOnly /\ [][NextLikePost]_vars

\* No handler call of the card is in flight.
NoHandlerInFlight ==
    /\ menuAction.pc = "idle"
    /\ sharing.pc = "idle"
    /\ \A s \in PostLikeSlots : likingPost[s].pc = "idle"

\* Gating: the card of post 1 is mounted with or without a session, and a
\* session may end; the user picks every action of the card, one at a time
\* while signed in and at any time while not; the requests answer.
NextGate ==
    \/ \E u \in CardUsers : MountCard(u, 1)
    \/ ChangeCardUser(NULL)
    \/ \E s \in LoadSlots, check \in Checks : CheckAnswered(s, check, TRUE)
    \/ \E action \in MenuActions :
          (cardUser = NULL \/ NoHandlerInFlight) /\ HandleMenuAction(action)
    \/ MenuCallAnswered(TRUE)
    \/ MenuCheckAnswered(TRUE)
    \/ (cardUser = NULL \/ NoHandlerInFlight) /\ HandleLike
    \/ \E s \in PostLikeSlots : LikePostAnswered(s, TRUE)
    \/ \E hasShare \in BOOLEAN :
          (cardUser = NULL \/ NoHandlerInFlight) /\ HandleShare(hasShare)
    \/ ShareAnswered(TRUE)
    \/ SharePostAnswered(TRUE)

SpecGate == InitStoreOnly /\ [][NextGate]_vars

\* Likes: the sessions of both users comment post 1, delete their comments
\* (with the cascades) and like and unlike any comment.
NextLikes ==
    \/ \E u \in Users, c \in CommentIds \cup {NULL} : ClientInsertsComment(u, 1, c)
    \/ \E u \in Users, c \in CommentIds : ClientDeletesComment(u, c)
    \/ \E u \in Users, c \in CommentIds : ClientInsertsLike(u, c)
    \/ \E u \in Users, c \in CommentIds : ClientDeletesLike(u, c)

SpecLikes == InitStoreOnly /\ [][NextLikes]_vars

\* ---- the specification of likeComment: one view, its user liking

\* The tree a view shows for post q and the session u once a fetch of the
\* present store has been applied.
CurrentTree(q, u) ==
    CommentsWithReplies(
        TransformComments(SelectComments(q),
                          IF u = NULL THEN {} ELSE SelectUserLikes(u)))

\* View A shows post 1 to user 1 or to a visitor without a session,
\* subscribed on channel 1, its first fetch applied.  Post 1 has one comment,
\* of user 2, which user 1 likes or not.
InitViewA ==
    /\ \E n \in {0, 1} :
          /\ comments = {[CommentRow(1, 2, 1, <<"a">>, NULL, 1)
                            EXCEPT !.likes_count = n]}
          /\ comment_likes = [k \in CommentIds \X Users |->
                                 IF k = <<1, 1>> THEN n ELSE 0]
    /\ posts = [q \in Posts |-> IF q = 1 THEN 1 ELSE 0]
    /\ nextId = 2
    /\ InitTxns
    /\ InitRows
    /\ user \in {[v \in Views |-> IF v = "A" THEN u ELSE NULL] : u \in {NULL, 1}}
    /\ channels = [c \in ChanIds |->
                      IF c = 1
                      THEN [st |-> "joined", view |-> "A", post |-> 1,
                            user |-> user["A"], pending |-> 0, orphan |-> FALSE]
                      ELSE NoChannel]
    /\ mounted = [v \in Views |-> v = "A"]
    /\ postId = [v \in Views |-> IF v = "A" THEN 1 ELSE NULL]
    /\ channelRef = [v \in Views |-> IF v = "A" THEN 1 ELSE NULL]
    /\ fetched = [v \in Views |->
                     IF v = "A"
                     THEN TransformComments(SelectComments(1),
                              IF user["A"] = NULL THEN {}
                              ELSE SelectUserLikes(user["A"]))
                     ELSE << >>]
    /\ viewComments = [v \in Views |->
                          IF v = "A" THEN CurrentTree(1, user["A"]) ELSE << >>]
    /\ loading = [v \in Views |-> FALSE]
    /\ toast = [v \in Views |-> "none"]
    /\ errorLog = [v \in Views |-> NoError]
    /\ history = [v \in Views |->
                     IF v = "A" THEN [NoHistory EXCEPT !.set = TRUE, !.shown = {1}] ELSE NoHistory]
    /\ InitCalls
    /\ InitCard

\* The user of view A likes and unlikes, in calls that follow each other or
\* overlap; the requests are answered or fail; the notifications of the
\* changes are handled.
NextLike ==
    \/ \E c \in CommentIds : LikeComment("A", c)
    \/ \E s \in LikeSlots, ok \in BOOLEAN : LikeReadAnswered("A", s, ok)
    \/ \E s \in LikeSlots, ok \in BOOLEAN : LikeDeleteAnswered("A", s, ok)
    \/ \E s \in LikeSlots, ok \in BOOLEAN : LikeInsertAnswered("A", s, ok)
    \/ \E s \in FetchSlots, ok \in BOOLEAN : FetchCommentsAnswered("A", s, ok)
    \/ \E s \in FetchSlots, ok \in BOOLEAN : FetchLikesAnswered("A", s, ok)
    \/ \E c \in ChanIds : HandleNotification(c)

SpecLike == InitViewA /\ [][NextLike]_vars

\* ---- the specification of repeated fetches: one view, a store at rest

\* The component of view A fetches again and again, the store being the
\* one of InitViewA throughout; the queries are answered or fail.
SpecRefetch == InitViewA /\ [][NextTree]_vars

\* ---- the specification of realtime propagation: two views of one post

\* Views A (user 1) and B (user 2) show post 1, each subscribed on its
\* channel.  Post 1 has a comment of user 2 and the replies to it, and one
\* more comment can be made.  A has applied its first fetch; B mounted last
\* and its first fetch is in flight.
InitTwoViews ==
    /\ comments = {CommentRow(1, 2, 1, <<"a">>, NULL, 1)}
                      \cup {CommentRow(i, 2, 1, <<"a">>, 1, i) : i \in 2 .. MaxComments - 1}
    /\ comment_likes = [k \in CommentIds \X Users |-> 0]
    /\ posts = [q \in Posts |-> IF q = 1 THEN MaxComments - 1 ELSE 0]
    /\ nextId = MaxComments
    /\ InitTxns
    /\ InitRows
    /\ channels = [c \in ChanIds |->
                      IF c = 1
                      THEN [st |-> "joined", view |-> "A", post |-> 1, user |-> 1,
                            pending |-> 0, orphan |-> FALSE]
                      ELSE IF c = 2
                      THEN [st |-> "joined", view |-> "B", post |-> 1, user |-> 2,
                            pending |-> 0, orphan |-> FALSE]
                      ELSE NoChannel]
    /\ mounted = [v \in Views |-> TRUE]
    /\ postId = [v \in Views |-> 1]
    /\ user = [v \in Views |-> IF v = "A" THEN 1 ELSE 2]
    /\ channelRef = [v \in Views |-> IF v = "A" THEN 1 ELSE 2]
    /\ fetched = [v \in Views |->
                     IF v = "A"
                     THEN TransformComments(SelectComments(1), SelectUserLikes(1))
                     ELSE << >>]
    /\ viewComments = [v \in Views |->
                          IF v = "A" THEN CurrentTree(1, 1) ELSE << >>]
    /\ loading = [v \in Views |-> v = "B"]
    /\ toast = [v \in Views |-> "none"]
    /\ errorLog = [v \in Views |-> NoError]
    /\ history = [v \in Views |->
                     IF v = "A"
                     THEN [NoHistory EXCEPT !.set = TRUE, !.shown = 1 .. MaxComments - 1]
                     ELSE NoHistory]
    /\ fetching = [v \in Views |-> [s \in FetchSlots |->
                      IF v = "B" /\ s = 1
                      THEN [pc |-> "comments", postId |-> 1, user |-> 2,
                            data |-> << >>, overlap |-> FALSE]
                      ELSE IdleFetch]]
    /\ liking = [v \in Views |-> [s \in LikeSlots |-> IdleLike]]
    /\ creating = [v \in Views |-> IdleCreate]
    /\ InitCard

\* The user of view A comments; the queries of both views are answered; the
\* notifications are handled.  B does nothing of its own.
NextRT ==
    \/ \E c \in CommentIds \cup {NULL} : CreateComment("A", <<"a">>, c)
    \/ \E ok \in BOOLEAN : CreateAnswered("A", ok)
    \/ \E v \in Views, s \in FetchSlots, ok \in BOOLEAN :
          FetchCommentsAnswered(v, s, ok)
    \/ \E v \in Views, s \in FetchSlots, ok \in BOOLEAN :
          FetchLikesAnswered(v, s, ok)
    \/ \E c \in ChanIds : HandleNotification(c)

\* Every request comes to an end, answered or failed, and every notification
\* queued on a joined channel is delivered.
FairRT ==
    /\ WF_vars(\E ok \in BOOLEAN : CreateAnswered("A", ok))
    /\ \A v \in Views, s \in FetchSlots :
          /\ WF_vars(\E ok \in BOOLEAN : FetchCommentsAnswered(v, s, ok))
          /\ WF_vars(\E ok \in BOOLEAN : FetchLikesAnswered(v, s, ok))
    /\ \A c \in ChanIds : WF_vars(HandleNotification(c))

SpecRT == InitTwoViews /\ [][NextRT]_vars /\ FairRT

\* The same views when every query is answered: what is left is the order
\* of the answers.
NextRace ==
    \/ \E c \in CommentIds \cup {NULL} : CreateComment("A", <<"a">>, c)
    \/ \E ok \in BOOLEAN : CreateAnswered("A", ok)
    \/ \E v \in Views, s \in FetchSlots : FetchCommentsAnswered(v, s, TRUE)
    \/ \E v \in Views, s \in FetchSlots : FetchLikesAnswered(v, s, TRUE)
    \/ \E c \in ChanIds : HandleNotification(c)

SpecRace == InitTwoViews /\ [][NextRace]_vars

\* ---- the specification of the subscription: the life of one view

\* View A is mounted, shown another post, signed in and out as user 1, and
\* unmounted; the realtime service confirms subscriptions; the queries are
\* answered.  The store stays empty.
NextLife ==
    \/ \E q \in Posts \cup {NULL} : Mount("A", q)
    \/ \E q \in Posts \cup {NULL} : ChangePost("A", q)
    \/ \E u \in {NULL, 1} : ChangeUser("A", u)
    \/ Unmount("A")
    \/ \E c \in ChanIds : Subscribed(c)
    \/ \E s \in FetchSlots : FetchCommentsAnswered("A", s, TRUE)
    \/ \E s \in FetchSlots : FetchLikesAnswered("A", s, TRUE)

SpecLife == InitStoreOnly /\ [][NextLife]_vars

\* ---- the specification of createComment: one view, other sessions

\* View A shows post 1, to user 1 or to a visitor without a session,
\* subscribed on channel 1, its first fetch applied.  Post 1 has the root
\* comments 1 .. n of user 2, none of them liked.
InitCreateFrom(n) ==
    /\ comments = {CommentRow(i, 2, 1, <<"a">>, NULL, i) : i \in 1 .. n}
    /\ comment_likes = [k \in CommentIds \X Users |-> 0]
    /\ posts = [q \in Posts |-> IF q = 1 THEN n ELSE 0]
    /\ nextId = n + 1
    /\ InitTxns
    /\ InitRows
    /\ user \in {[v \in Views |-> IF v = "A" THEN u ELSE NULL] : u \in {NULL, 1}}
    /\ channels = [c \in ChanIds |->
                      IF c = 1
                      THEN [st |-> "joined", view |-> "A", post |-> 1,
                            user |-> user["A"], pending |-> 0, orphan |-> FALSE]
                      ELSE NoChannel]
    /\ mounted = [v \in Views |-> v = "A"]
    /\ postId = [v \in Views |-> IF v = "A" THEN 1 ELSE NULL]
    /\ channelRef = [v \in Views |-> IF v = "A" THEN 1 ELSE NULL]
    /\ fetched = [v \in Views |->
                     IF v = "A" THEN TransformComments(SelectComments(1), {})
                     ELSE << >>]
    /\ viewComments = [v \in Views |->
                          IF v = "A" THEN CurrentTree(1, NULL) ELSE << >>]
    /\ loading = [v \in Views |-> FALSE]
    /\ toast = [v \in Views |-> "none"]
    /\ errorLog = [v \in Views |-> NoError]
    /\ history = [v \in Views |->
                     IF v = "A" THEN [NoHistory EXCEPT !.set = TRUE, !.shown = 1 .. n]
                     ELSE NoHistory]
    /\ InitCalls
    /\ InitCard

\* All comments but two have been made.
InitCreate == InitCreateFrom(MaxComments - 2)

\* No comment has been made.
InitCreateEmpty == InitCreateFrom(0)

\* The user of view A comments, with any text, as a root or as a reply; the
\* requests are answered or fail; the notifications are handled.
NextCreate ==
    \/ \E content \in Contents, c \in {NULL, 1} :
          CreateComment("A", content, c)
    \/ \E ok \in BOOLEAN : CreateAnswered("A", ok)
    \/ \E s \in FetchSlots, ok \in BOOLEAN : FetchCommentsAnswered("A", s, ok)
    \/ \E s \in FetchSlots, ok \in BOOLEAN : FetchLikesAnswered("A", s, ok)
    \/ \E c \in ChanIds : HandleNotification(c)

SpecCreate == InitCreate /\ [][NextCreate]_vars

\* The user of view A comments post 1 with root comments, while other
\* sessions of both users comment it in transactions that overlap; the
\* queries of the view are answered.
NextCreateTxn ==
    \/ CreateComment("A", <<" ", "a", " ">>, NULL)
    \/ \E ok \in BOOLEAN : CreateAnswered("A", ok)
    \/ \E s \in FetchSlots : FetchCommentsAnswered("A", s, TRUE)
    \/ \E s \in FetchSlots : FetchLikesAnswered("A", s, TRUE)
    \/ \E c \in ChanIds : HandleNotification(c)
    \/ \E u \in Users : TxnInsertsComment(u, 1, NULL)
    \/ \E u \in Users : TxnTriggerCounts(u, 1)
    \/ \E u \in Users : TxnTriggerUpdates(u)
    \/ \E u \in Users : TxnCommits(u)

SpecCreateTxn == InitCreateEmpty /\ [][NextCreateTxn]_vars

\* ---- the specification of replies: one view shown one post, then another

\* The user of view A comments and replies to the comments the view
\* displays, while the view, shown post 1, is shown post 2; the owners of
\* the comments delete them; the requests are answered.
NextReply ==
    \/ ChangePost("A", 2)
    \/ CreateComment("A", <<"a">>, NULL)
    \/ \E c \in CommentIds :
          c \in ShownIds(viewComments["A"]) /\ CreateComment("A", <<"a">>, c)
    \/ CreateAnswered("A", TRUE)
    \/ \E s \in FetchSlots : FetchCommentsAnswered("A", s, TRUE)
    \/ \E s \in FetchSlots : FetchLikesAnswered("A", s, TRUE)
    \/ \E u \in Users, c \in CommentIds : ClientDeletesComment(u, c)

SpecReply == InitCreateFrom(MaxComments - 1) /\ [][NextReply]_vars

\* ---- the specification of post changes: one view shown either post

\* View A shows post 1, to user 1 or to a visitor without a session,
\* subscribed on channel 1, its first fetch applied.  Each post has one
\* root comment of user 2: comment 1 on post 1, comment 2 on post 2.
InitPosts ==
    /\ comments = {CommentRow(i, 2, i, <<"a">>, NULL, i) : i \in Posts}
    /\ comment_likes = [k \in CommentIds \X Users |-> 0]
    /\ posts = [q \in Posts |-> 1]
    /\ nextId = 3
    /\ InitTxns
    /\ InitRows
    /\ user \in {[v \in Views |-> IF v = "A" THEN u ELSE NULL] : u \in {NULL, 1}}
    /\ channels = [c \in ChanIds |->
                      IF c = 1
                      THEN [st |-> "joined", view |-> "A", post |-> 1,
                            user |-> user["A"], pending |-> 0, orphan |-> FALSE]
                      ELSE NoChannel]
    /\ mounted = [v \in Views |-> v = "A"]
    /\ postId = [v \in Views |-> IF v = "A" THEN 1 ELSE NULL]
    /\ channelRef = [v \in Views |-> IF v = "A" THEN 1 ELSE NULL]
    /\ fetched = [v \in Views |->
                     IF v = "A" THEN TransformComments(SelectComments(1), {})
                     ELSE << >>]
    /\ viewComments = [v \in Views |->
                          IF v = "A" THEN CurrentTree(1, NULL) ELSE << >>]
    /\ loading = [v \in Views |-> FALSE]
    /\ toast = [v \in Views |-> "none"]
    /\ errorLog = [v \in Views |-> NoError]
    /\ history = [v \in Views |->
                     IF v = "A" THEN [NoHistory EXCEPT !.set = TRUE, !.shown = {1}]
                     ELSE NoHistory]
    /\ InitCalls
    /\ InitCard

\* The view is shown one post, then the other, back and forth; the queries
\* of its fetches are answered, in any order.
NextPost ==
    \/ \E q \in Posts : ChangePost("A", q)
    \/ \E s \in FetchSlots : FetchCommentsAnswered("A", s, TRUE)
    \/ \E s \in FetchSlots : FetchLikesAnswered("A", s, TRUE)

SpecPost == InitPosts /\ [][NextPost]_vars

\* ---- the specification of notifications: likes on the comments of any post

\* View A is shown post 1, then post 2; a session of user 2 likes and
\* unlikes the comments of both posts; the realtime service confirms the
\* subscriptions and the notifications are handled; the queries are answered.
NextNotify ==
    \/ \E c \in CommentIds : ClientInsertsLike(2, c)
    \/ \E c \in CommentIds : ClientDeletesLike(2, c)
    \/ \E q \in Posts : ChangePost("A", q)
    \/ \E c \in ChanIds : Subscribed(c)
    \/ \E c \in ChanIds : HandleNotification(c)
    \/ \E s \in FetchSlots : FetchCommentsAnswered("A", s, TRUE)
    \/ \E s \in FetchSlots : FetchLikesAnswered("A", s, TRUE)

SpecNotify == InitPosts /\ [][NextNotify]_vars

\* ---- the specification of mutations: likes and comments from one view

\* The user of view A likes and unlikes the comment, one call at a time,
\* and comments the post once; the mutations are answered, the queries of
\* the refetches are answered or fail.
NextMutate ==
    \/ ~LikeInFlight("A") /\ LikeComment("A", 1)
    \/ \E s \in LikeSlots : LikeReadAnswered("A", s, TRUE)
    \/ \E s \in LikeSlots : LikeDeleteAnswered("A", s, TRUE)
    \/ \E s \in LikeSlots : LikeInsertAnswered("A", s, TRUE)
    \/ nextId = 2 /\ CreateComment("A", <<"a">>, NULL)
    \/ CreateAnswered("A", TRUE)
    \/ \E s \in FetchSlots, ok \in BOOLEAN : FetchCommentsAnswered("A", s, ok)
    \/ \E s \in FetchSlots, ok \in BOOLEAN : FetchLikesAnswered("A", s, ok)

SpecMutate == InitViewA /\ [][NextMutate]_vars

\* Transactions: the sessions of both users comment both posts and delete
\* their comments, in transactions that overlap.
NextTxn ==
    \/ \E u \in Users, q \in Posts, c \in CommentIds \cup {NULL} :
          TxnInsertsComment(u, q, c)
    \/ \E u \in Users, c \in CommentIds : TxnDeletesComment(u, c)
    \/ \E u \in Users, q \in Posts : TxnTriggerCounts(u, q)
    \/ \E u \in Users : TxnTriggerUpdates(u)
    \/ \E u \in Users : TxnCommits(u)
    \/ \E u \in Users : TxnAborts(u)

SpecTxn == InitStoreOnly /\ [][NextTxn]_vars

\* ------------------------------------------------------------ the claims

RootIds(tree) == {tree[j].id : j \in 1 .. Len(tree)}

\* C1: in the tree a fetch has set, every fetched comment with a null
\* parent_id is a root, every fetched comment whose parent_id is the id of a
\* root is in that root's replies, and the replies of every root are in
\* ascending created_at order.
C1_TreeRootsAndReplies ==
    \A v \in Views :
        LET tree == viewComments[v]
        IN /\ \A c \in SeqRange(fetched[v]) :
                 /\ c.parent_id = NULL => c.id \in RootIds(tree)
                 /\ \A j \in 1 .. Len(tree) :
                       c.parent_id = tree[j].id => c \in SeqRange(tree[j].replies)
           /\ \A j \in 1 .. Len(tree) :
                 \A a, b \in 1 .. Len(tree[j].replies) :
                     a < b => tree[j].replies[a].created_at
                                  < tree[j].replies[b].created_at

\* A fetched list of three comments, a root and two replies to it, whose
\* creation order is not the order of their ids, displayed.
C1_Witness ==
    /\ Len(fetched["A"]) = 3
    /\ Len(viewComments["A"]) = 1
    /\ Len(viewComments["A"][1].replies) = 2
    /\ viewComments["A"][1].replies[1].id > viewComments["A"][1].replies[2].id

\* C2: a fetched comment whose parent is itself a reply is displayed neither
\* as a root nor among the replies of any root.
C2_ReplyToReplyDropped ==
    \A v \in Views :
        LET tree == viewComments[v]
        IN \A c \in SeqRange(fetched[v]) :
              (\E q \in SeqRange(fetched[v]) :
                    q.id = c.parent_id /\ q.parent_id # NULL)
              => /\ c.id \notin RootIds(tree)
                 /\ \A j \in 1 .. Len(tree) :
                       \A k \in 1 .. Len(tree[j].replies) :
                           tree[j].replies[k].id # c.id

\* A root, a reply to it and a reply to that reply were fetched, and the
\* tree displayed holds the first two only.
C2_Witness ==
    /\ Len(fetched["A"]) = 3
    /\ \E c, q \in SeqRange(fetched["A"]) :
          c.parent_id = q.id /\ q.parent_id # NULL
    /\ Len(viewComments["A"]) = 1
    /\ Len(viewComments["A"][1].replies) = 1

\* C3: after every insert and delete of comment_likes rows, with the likes
\* trigger fired, the likes_count of every comment is the number of
\* comment_likes rows of that comment.
C3_LikesCountIsRowCount ==
    \A r \in comments : r.likes_count = LikeRows(r.id)

\* Both users liked one comment, one of them liked, then unliked, another.
C3_Witness ==
    \E r, q \in comments :
        /\ r.id # q.id
        /\ r.likes_count = 2 /\ LikeRows(r.id) = 2
        /\ q.likes_count = 0 /\ LikeRows(q.id) = 0
        /\ Cardinality(comments) < nextId - 1

\* C4: once the trigger of every insert and delete of comments has fired
\* (no transaction is open), the comments counter of every post is the
\* number of comments rows of that post.
C4_CommentsCounterIsRowCount ==
    (\A u \in Users : txns[u].pc = "idle")
        => \A q \in Posts : posts[q] = CountComments(comments, q)

\* C5: there is at most one comment_likes row per (comment, user), also when
\* two likeComment calls of the same user on the same comment both read
\* "not liked" before either inserts: the second insert is rejected, the
\* rejection is logged by likeComment, with no toast, and the store keeps
\* exactly one row of the pair.
C5_OneLikeRowPerPair ==
    /\ [](\A k \in CommentIds \X Users : comment_likes[k] <= 1)
    /\ [][\A v \in Views, s \in LikeSlots :
            LET k == liking[v][s]
            IN (/\ k.pc = "insert"
                /\ comment_likes[<<k.commentId, k.user>>] = 1
                /\ liking'[v][s].pc = "idle")
               => /\ comment_likes' = comment_likes
                  /\ comments' = comments
                  /\ toast' = toast
                  /\ errorLog'[v].msg = "Error liking comment:"]_vars

\* Two calls interleaved: the second insert was rejected as a duplicate and
\* one row is left.
C5_Witness ==
    /\ errorLog["A"] = [msg |-> "Error liking comment:",
                        error |-> "unique (comment_id, user_id)"]
    /\ comment_likes[<<1, 1>>] = 1
    /\ ~LikeInFlight("A")
    /\ toast["A"] = "none"
    /\ history["A"].phase = "none"
    /\ ~history["A"].before
    /\ ~history["A"].failed

Settled(v) ==
    /\ ~FetchInFlight(v)
    /\ \A c \in ChanIds :
          (channels[c].view = v /\ channels[c].st = "joined")
              => channels[c].pending = 0

\* C7: when executions of fetchComments of a view overlapped and all have
\* completed, with no mutation since, the displayed tree is the tree built
\* from the store's current comments, in whatever order the queries were
\* answered and the results applied.
C7_OverlappingFetchesConverge ==
    \A v \in Views :
        (mounted[v] /\ history[v].raced /\ Settled(v))
            => viewComments[v] = CurrentTree(postId[v], user[v])

\* A comment of user 1 on post 1 that is a root or a reply to a root.
CreatedByA(c) ==
    \E r \in comments :
        /\ r.id = c
        /\ r.user_id = 1
        /\ \/ r.parent_id = NULL
           \/ \E q \in comments : q.id = r.parent_id /\ q.parent_id = NULL

\* The ids createComment can give in the realtime scenario.
NewIds == {MaxComments}

LiveChannels(v) ==
    {c \in ChanIds : channels[c].view = v /\ channels[c].st \in {"joining", "joined"}}

\* C9: in every reachable state of a mounted view, across mounts, postId
\* changes, user changes and unmounts, at most one channel the view created
\* is live.
C9_AtMostOneLiveChannel ==
    \A v \in Views : mounted[v] => Cardinality(LiveChannels(v)) <= 1

\* C10: after unmount no channel the view created is live and channelRef is
\* null, also when creating or removing a channel raised an error.
C10_NoChannelAfterUnmount ==
    \A v \in Views :
        ~mounted[v] => (LiveChannels(v) = {} /\ channelRef[v] = NULL)
\* The comments of the store that createComment call c of a view did not
\* find there when it was made.
NewRows(c, rows) == {r \in rows : r \notin c.rows}

\* The roots of a tree that call c did not find in the store.
NewRoots(c, tree) ==
    {i \in DOMAIN tree : tree[i].id \notin {r.id : r \in c.rows}}

\* C11: when a createComment call of a signed-in user, with a non-blank
\* content and no parentId, has inserted and its refetch has set the tree,
\* the store having changed by that insert alone since the call, the tree
\* has exactly one root that was not in the store before, owned by the
\* user and with the trimmed content, and the comments counter of the post
\* is one higher than when the call was made.
C11_CreateAddsOneRoot ==
    [][\A v \in Views :
         LET c == history[v].create
         IN (/\ c.phase = "refetch"
             /\ history'[v].create.phase = "done"
             /\ c.parentId = NULL
             /\ c.rows \subseteq comments'
             /\ Cardinality(NewRows(c, comments')) = 1)
            => /\ Cardinality(NewRoots(c, viewComments'[v])) = 1
               /\ \A i \in NewRoots(c, viewComments'[v]) :
                     /\ viewComments'[v][i].user_id = c.user
                     /\ viewComments'[v][i].content = c.content
                     /\ viewComments'[v][i].post_id = c.post
               /\ posts'[c.post] = c.counter[c.post] + 1]_vars

\* A content that is empty or made of white space only.
IsBlank(content) == \A i \in 1 .. Len(content) : content[i] = " "

\* C12: a createComment call made without a session, or with a content
\* that is empty or white space only, issues no request (no insert is
\* awaited, no fetch starts), shows an error toast, returns null and leaves
\* the store, the channels' queues and the displayed tree as they are.
C12_CreateRefusedTouchesNothing ==
    [][\A v \in Views, content \in Contents, parentId \in CommentIds \cup {NULL} :
         (/\ (user[v] = NULL \/ IsBlank(content))
          /\ CreateComment(v, content, parentId))
         => /\ creating' = creating
            /\ fetching' = fetching
            /\ liking' = liking
            /\ UNCHANGED <<comments, comment_likes, posts, nextId, txns, locks>>
            /\ channels' = channels
            /\ viewComments' = viewComments
            /\ toast'[v] = IF user[v] = NULL
                           THEN "Vous devez etre connecte pour commenter"
                           ELSE "Le commentaire ne peut pas etre vide"
            /\ history'[v].create.result = "null"]_vars

\* The signed-in user sent a content of white space after a comment of
\* theirs had been inserted: the call was refused and nothing was inserted.
C12_Witness ==
    /\ user["A"] = 1
    /\ history["A"].create.phase = "refused"
    /\ history["A"].create.content = <<" ">>
    /\ history["A"].create.result = "null"
    /\ toast["A"] = "Le commentaire ne peut pas etre vide"
    /\ comments = history["A"].create.rows
    /\ Cardinality(comments) = MaxComments - 1
    /\ creating["A"].pc = "idle"

\* C13: a likeComment call made without a session issues no request (no
\* existence read, insert or delete is awaited, no fetch starts), shows the
\* sign-in toast, and leaves the like rows, the likes_count values and the
\* displayed tree as they are.
C13_LikeWithoutSessionTouchesNothing ==
    [][\A v \in Views, c \in CommentIds :
         (LikeComment(v, c) /\ user[v] = NULL)
         => /\ liking' = liking
            /\ fetching' = fetching
            /\ creating' = creating
            /\ comment_likes' = comment_likes
            /\ comments' = comments
            /\ channels' = channels
            /\ viewComments' = viewComments
            /\ toast'[v] = "Vous devez etre connecte pour liker un commentaire"]_vars

\* A visitor without a session has tapped like on the comment user 1 likes.
C13_Witness ==
    /\ user["A"] = NULL
    /\ toast["A"] = "Vous devez etre connecte pour liker un commentaire"
    /\ comment_likes[<<1, 1>>] = 1
    /\ \E r \in comments : r.id = 1 /\ r.likes_count = 1
    /\ ~LikeInFlight("A")
    /\ viewComments["A"] = CurrentTree(1, NULL)

\* The step in which the insert of the createComment call of view v fails:
\* the request fails, or the store rejects the row.
CreateRejected(v) ==
    LET k == creating[v]
        row == CommentRow(nextId, k.user, k.postId, k.content, k.parentId, nextId)
    IN \/ CreateAnswered(v, FALSE)
       \/ /\ CreateAnswered(v, TRUE)
          /\ ~(nextId <= MaxComments /\ InsertCommentAllowed(user[v], row))

\* C14: when the insert of a createComment call fails, the call shows the
\* error toast, returns null and starts no fetch, and the comments, the
\* likes, the counters and the displayed tree are left as they are.
C14_CreateFailureAppliesNothing ==
    [][\A v \in Views :
         CreateRejected(v)
         => /\ toast'[v] = "Erreur lors de la creation du commentaire"
            /\ errorLog'[v].msg = "Error creating comment:"
            /\ history'[v].create.result = "null"
            /\ fetching' = fetching
            /\ loading' = loading
            /\ UNCHANGED <<comments, comment_likes, posts, nextId>>
            /\ channels' = channels
            /\ viewComments' = viewComments]_vars

\* The insert of a call failed with no fetch in flight: the store and the
\* tree are those of the time of the call.
C14_Witness ==
    /\ history["A"].create.phase = "rejected"
    /\ history["A"].create.result = "null"
    /\ errorLog["A"] = [msg |-> "Error creating comment:", error |-> "request failed"]
    /\ toast["A"] = "Erreur lors de la creation du commentaire"
    /\ comments = history["A"].create.rows
    /\ posts = history["A"].create.counter
    /\ viewComments["A"] = history["A"].create.tree
    /\ ~FetchInFlight("A")

\* C15: when a query of an execution of fetchComments fails, the comments
\* query or the likes query, the execution returns without setting the
\* tree: the displayed tree keeps its value, and loading is false once the
\* execution has returned.
C15_FailedFetchKeepsTree ==
    [][\A v \in Views, s \in FetchSlots :
         (FetchCommentsAnswered(v, s, FALSE) \/ FetchLikesAnswered(v, s, FALSE))
         => /\ fetching'[v][s].pc = "idle"
            /\ viewComments'[v] = viewComments[v]
            /\ loading'[v] = FALSE]_vars

\* The step in which execution s of view v sets the tree, having run from
\* its call to its end with no other execution of the view in flight.
SetsTreeAlone(v, s) ==
    /\ ~fetching[v][s].overlap
    /\ \/ \E ok \in BOOLEAN : FetchLikesAnswered(v, s, ok)
       \/ FetchCommentsAnswered(v, s, TRUE) /\ fetching[v][s].user = NULL

\* C16: when the displayed tree was set by an execution of fetchComments
\* that ran alone, and the next execution, for the same post and user, also
\* runs alone and sets the tree, the store not having changed since the
\* first one started (it never changes in SpecRefetch), the second tree is
\* the first one: same roots, same replies, same order, same is_liked and
\* likes_count.
C16_FetchTwiceSameTree ==
    [][\A v \in Views, s \in FetchSlots :
         (history[v].set /\ ~history[v].raced /\ SetsTreeAlone(v, s))
         => viewComments'[v] = viewComments[v]]_vars

\* C17: every comment with a non-null parent_id references an existing
\* comment of its own post, in every store state that createComment calls
\* with a parentId taken from the displayed tree, deletes of comments and
\* changes of the postId of the view lead to.
C17_ParentOnSamePost ==
    \A r \in comments :
        r.parent_id # NULL
            => \E q \in comments : q.id = r.parent_id /\ q.post_id = r.post_id

\* The rows a delete of the comments ids takes with it: those comments and
\* the comments whose parent_id is one of them.
WithReplies(ids) == ids \cup {r.id : r \in {q \in comments : q.parent_id \in ids}}

\* Every like row references an existing comment and an existing user;
\* every comment an existing user, an existing post and, as a reply, an
\* existing parent.
ReferencesExist ==
    /\ \A k \in DOMAIN comment_likes :
          comment_likes[k] > 0 => CommentExists(k[1]) /\ k[2] \in auth_users
    /\ \A r \in comments :
          /\ r.user_id \in auth_users
          /\ r.post_id \in public_posts
          /\ r.parent_id # NULL => CommentExists(r.parent_id)

\* C18: cascade deletes.  After a comment is deleted, neither it nor a
\* comment whose parent_id it was remains, nor a like of any of them; after
\* a post is deleted none of its comments remains; after a user is deleted
\* none of their comments and none of their likes remains; and in every
\* state every like references an existing comment and an existing user.
C18_CascadeDeletes ==
    /\ ReferencesExist
    /\ [][
          /\ ReferencesExist'
          /\ \A u \in Users, c \in CommentIds :
                ClientDeletesComment(u, c)
                => \A i \in WithReplies({c}) :
                      /\ ~\E r \in comments' : r.id = i
                      /\ \A w \in Users : comment_likes'[<<i, w>>] = 0
          /\ \A p \in Posts :
                PostDeleted(p) => ~\E r \in comments' : r.post_id = p
          /\ \A u \in Users :
                UserDeleted(u)
                => /\ ~\E r \in comments' : r.user_id = u
                   /\ \A c \in CommentIds : comment_likes'[<<c, u>>] = 0
       ]_vars

\* A post and an account are gone after every comment id was used, and a
\* liked comment of the other user on the other post remains.
C18_Witness ==
    /\ public_posts = {2}
    /\ auth_users = {2}
    /\ nextId = MaxComments + 1
    /\ \E r \in comments : r.likes_count = 1 /\ r.parent_id # NULL

\* The comment with id i is in the rows cs.
HasComment(cs, i) == \E r \in cs : r.id = i

\* What a step does to the rows that are not of the user auth, at most:
\* none of them is new or has changed hands; a comment that goes away goes
\* with its parent (the cascade of parent_id); one that stays keeps its
\* columns, its likes_count following the likes of auth (the likes
\* trigger); a like stays, or goes away with its comment (the cascade of
\* comment_id).
OthersRowsFollow(auth) ==
    /\ \A q \in comments' :
          q.user_id # auth => \E r \in comments : r.id = q.id /\ r.user_id = q.user_id
    /\ \A r \in comments :
          r.user_id # auth =>
              \/ /\ ~HasComment(comments', r.id)
                 /\ r.parent_id # NULL
                 /\ ~HasComment(comments', r.parent_id)
              \/ \E q \in comments' :
                    /\ q = [r EXCEPT !.likes_count = q.likes_count]
                    /\ q.likes_count - r.likes_count =
                          IF auth = NULL THEN 0
                          ELSE comment_likes'[<<r.id, auth>>] - comment_likes[<<r.id, auth>>]
    /\ \A k \in DOMAIN comment_likes :
          k[2] # auth =>
              \/ comment_likes'[k] = comment_likes[k]
              \/ comment_likes'[k] = 0 /\ ~HasComment(comments', k[1])

\* A step leaves every row that is not of the user auth as it is.
OthersRowsUntouched(auth) ==
    /\ {r \in comments' : r.user_id # auth} = {r \in comments : r.user_id # auth}
    /\ \A k \in DOMAIN comment_likes : k[2] # auth => comment_likes'[k] = comment_likes[k]

\* C19: row-level access.  Every session reads every row.  An insert, an
\* update or a delete of a comment, and an insert or a delete of a like,
\* takes effect only on a row whose user_id is the acting identity: no
\* statement of a session creates a row of another user, gives one a row,
\* or updates or deletes a row of another user.  The rows of another user
\* change only as the cascades and the likes trigger have them follow the
\* acting user's own rows: a reply goes with its deleted parent, a like with
\* its deleted comment, and likes_count follows the acting user's likes.
C19_RowLevelAccess ==
    /\ [](\A auth \in Identities :
            /\ ViewableComments(auth) = comments
            /\ \A k \in DOMAIN comment_likes :
                  comment_likes[k] > 0 => k \in ViewableLikes(auth))
    /\ [][\A auth \in Identities : RequestBy(auth) => OthersRowsFollow(auth)]_vars

\* C19 as stated: no statement of a session creates, alters or removes a
\* comment or a like of another user.
C19_OthersRowsNeverChange ==
    [][\A auth \in Identities : RequestBy(auth) => OthersRowsUntouched(auth)]_vars

\* Both users have rows the other could aim at: user 1 has updated its
\* comment, which user 2 has liked and replied to.
C19_Witness ==
    \E r, q \in comments :
        /\ r.user_id = 1 /\ r.content = <<"b">> /\ r.likes_count = 1
        /\ comment_likes[<<r.id, 2>>] = 1
        /\ q.user_id = 2 /\ q.parent_id = r.id

\* C20: the blocked state of the card is terminal: once isBlocked is true,
\* it stays true (and the card renders nothing) for as long as the card
\* stays mounted, in whatever order the initial load of the action states
\* and the check after a block action complete.
C20_BlockedIsTerminal ==
    [][cardMounted /\ isBlocked /\ cardMounted' => isBlocked']_vars

\* A handler of the card is called: like, share, or an action of the menu.
HandlerCalled ==
    \/ HandleLike
    \/ \E hasShare \in BOOLEAN : HandleShare(hasShare)
    \/ \E action \in MenuActions : HandleMenuAction(action)

\* C21: gating.  A handler of a mutating action of the card (like, share,
\* follow, save, report, hide, block) that is called without a session
\* returns after the auth check: it calls no data-layer operation, puts no
\* call in flight, and changes neither the store behind the data layer nor
\* the local state of the card.
C21_Gating ==
    [][(cardUser = NULL /\ HandlerCalled)
       => /\ dataCall' = dataCall
          /\ UNCHANGED <<menuAction, likingPost, sharing, loadingStates>>
          /\ UNCHANGED <<actionVars, post_likes>>
          /\ UNCHANGED <<isLiked, likesCount, isFollowed, isSaved, isBlocked,
                         actionStatesLoaded, cardToast>>]_vars

\* The block action has been refused for want of a session, on a card
\* that had called the data layer while it had one.
C21_Witness ==
    /\ cardMounted
    /\ cardUser = NULL
    /\ authPrompt = "block"
    /\ dataCall = "likePost"

\* The mounted card is rendered with another (user, post) pair that has a
\* user.
PairChanged ==
    /\ cardMounted /\ cardMounted'
    /\ <<cardUser, prediction>>' # <<cardUser, prediction>>
    /\ cardUser' # NULL

\* An execution of loadActionStates starts for the pair (u, p).
LoadStartedFor(u, p) ==
    \E s \in LoadSlots :
        /\ loadingStates[s].pc = "idle"
        /\ loadingStates'[s].pc = "checking"
        /\ loadingStates'[s].user = u
        /\ loadingStates'[s].post = p

\* An execution of loadActionStates starts.
LoadStarted ==
    \E s \in LoadSlots :
        loadingStates[s].pc = "idle" /\ loadingStates'[s].pc = "checking"

\* C22: reconciliation.  The follow/save/block flags are loaded once for
\* each (user, post) pair the mounted card displays: a render of the mounted
\* card with another pair starts a load for the new pair, and a step that
\* leaves the pair of the mounted card unchanged starts no load.
C22_LoadPerPair ==
    /\ [][PairChanged => LoadStartedFor(cardUser', prediction')]_vars
    /\ [][(cardMounted /\ cardMounted'
            /\ <<cardUser, prediction>>' = <<cardUser, prediction>>)
           => ~LoadStarted]_vars

\* The post ids of the comments a tree shows, roots and replies.
ShownPosts(tree) ==
    UNION {{tree[i].post_id} \cup {r.post_id : r \in SeqRange(tree[i].replies)} :
             i \in DOMAIN tree}

\* C23: after the postId of a mounted view has changed, once no fetch of
\* the view is in flight the displayed tree contains only comments of the
\* post the view shows now: no execution started for the former post leaves
\* its comments displayed.
C23_OnlyCurrentPostShown ==
    \A v \in Views :
        (mounted[v] /\ postId[v] # NULL /\ ~FetchInFlight(v))
            => ShownPosts(viewComments[v]) \subseteq {postId[v]}

\* C24: the loading flag brackets the whole fetch: in every state of a
\* mounted view, while an execution of fetchComments with a non-empty postId
\* has started and not finished (its store call answered or not), loading
\* is true.
C24_LoadingBracketsFetch ==
    \A v \in Views : (mounted[v] /\ FetchInFlight(v)) => loading[v]

\* An execution of fetchComments of view v starts, for post p.
FetchStartedFor(v, p) ==
    \E s \in FetchSlots :
        /\ fetching[v][s].pc = "idle"
        /\ fetching'[v][s].pc = "comments"
        /\ fetching'[v][s].postId = p

\* C25: every change notification handled on the channel a mounted view
\* holds starts a full refetch of the comments of the post the view
\* displays; and the likes subscription is unfiltered: an insert or a delete
\* of a like of a comment of any post, the displayed one or another, queues
\* a notification on every joined channel.
C25_NotificationsRefetch ==
    /\ [][\A c \in ChanIds :
            LET v == channels[c].view
            IN (HandleNotification(c) /\ mounted[v] /\ channelRef[v] = c)
                  => FetchStartedFor(v, postId[v])]_vars
    /\ [][\A u \in Users, k \in CommentIds :
            (ClientInsertsLike(u, k) \/ ClientDeletesLike(u, k))
               => \A c \in ChanIds :
                     channels[c].st = "joined"
                        => channels'[c].pending
                              = Min(MaxPending, channels[c].pending + 1
                                       + IF PostOf(k) = channels[c].post THEN 1 ELSE 0)]_vars

\* View A, shown post 1 throughout, is refetching because of the like a
\* user gave to comment 2, a comment of post 2: the notification has been
\* handled.
C25_Witness ==
    /\ mounted["A"] /\ postId["A"] = 1 /\ channelRef["A"] = 1
    /\ comment_likes[<<2, 2>>] = 1
    /\ \A k \in CommentIds \X Users : k # <<2, 2>> => comment_likes[k] = 0
    /\ channels[1].pending = 0
    /\ \E s \in FetchSlots :
          fetching["A"][s].pc = "comments" /\ fetching["A"][s].postId = 1

\* The (id, likes_count) pairs of the comments a tree shows.
ShownCounts(tree) ==
    UNION {{<<tree[i].id, tree[i].likes_count>>}
              \cup {<<r.id, r.likes_count>> : r \in SeqRange(tree[i].replies)} :
             i \in DOMAIN tree}

\* The rows the comments query of execution f has read from the store, or
\* reads in this step.
DataRead(f) == IF f.pc = "likes" THEN f.data ELSE SelectComments(f.postId)

ShownRows(tree) ==
    UNION {{tree[i]} \cup SeqRange(tree[i].replies) : i \in DOMAIN tree}

\* C27: in the tree a successful execution of fetchComments produces, a
\* comment's is_liked is true exactly when the user of the execution has a
\* like row for that comment at the time its likes query is answered; an
\* execution without a session queries no likes and every is_liked of its
\* tree is false.
C27_IsLikedAsRead ==
    [][\A v \in Views, s \in FetchSlots :
          LET f == fetching[v][s]
          IN /\ (mounted[v] /\ FetchLikesAnswered(v, s, TRUE))
                   => \A x \in ShownRows(viewComments'[v]) :
                         x.is_liked <=> comment_likes[<<x.id, f.user>>] > 0
             /\ (mounted[v] /\ f.user = NULL /\ FetchCommentsAnswered(v, s, TRUE))
                   => /\ fetching'[v][s].pc = "idle"
                      /\ \A x \in ShownRows(viewComments'[v]) : ~x.is_liked]_vars

\* The user of the view has liked the comment in a call that succeeded,
\* and the refetch has set a tree that shows it as liked.
C27_Witness ==
    /\ user["A"] = 1
    /\ history["A"].phase = "between" /\ ~history["A"].failed
    /\ comment_likes[<<1, 1>>] = 1
    /\ ~FetchInFlight("A")
    /\ \E x \in ShownRows(viewComments["A"]) : x.id = 1 /\ x.is_liked

\* What the mirror counts when it is coherent: the likes the card was
\* mounted with, one more when the card is liked now and was not then, one
\* less when it is not liked now and was then.
MirroredLikes ==
    cardInitial.likes
        + (IF isLiked /\ ~cardInitial.is_liked THEN 1
           ELSE IF ~isLiked /\ cardInitial.is_liked THEN 0 - 1
           ELSE 0)

\* C28: the local like mirror of the card stays coherent: in every state of
\* a mounted card, after any sequence of handleLike calls, overlapping or
\* not, likesCount is the initial likes corrected by the change of isLiked.
C28_LikeMirrorCoherent ==
    cardMounted => likesCount = MirroredLikes
====
